---- MODULE Spec2Model ----
(***************************************************************************)
(* Production-chain planner (batch mode, unnamed/part_000): the chain      *)
(* resolver, the topological ranker, the rate/quantity engine and the App  *)
(* component's state (target, amount, language, miner settings).           *)
(*                                                                         *)
(* JavaScript numbers are modelled as exact rationals [n, d] in lowest     *)
(* terms; node ids `node-<i>` are modelled by the integer i and edge ids   *)
(* `edge-node-<s>-node-<t>` by the pair <<s, t>>.                          *)
(***************************************************************************)
EXTENDS Integers, Sequences, FiniteSets, TLC

VARIABLES language, targetItem, targetAmount, minerSettings,
          productionChain, resolved, changes, call

vars == <<language, targetItem, targetAmount, minerSettings,
          productionChain, resolved, changes, call>>

(***************************************************************************)
(* Bounds of the model.                                                    *)
(***************************************************************************)
\* number of tier/purity selections explored in one behaviour of Spec
MaxChanges == 1
\* number of tier/purity selections explored in one behaviour of SettingsSpec
MaxSettingChanges == 2
\* the functions exercised on their own get the amounts k/2, k = 0..MaxCallAmount
MaxCallAmount == 4
\* number of nested calls of the resolver the call stack holds; one more
\* call ends the resolution with a RangeError
MaxStack == 4
\* the layout is run on straight chains of 1..MaxTiers nodes
MaxTiers == 7

(***************************************************************************)
(* Numbers.                                                                *)
(***************************************************************************)
Abs(x) == IF x < 0 THEN -x ELSE x

RECURSIVE GCD(_, _)
GCD(a, b) == IF b = 0 THEN a ELSE GCD(b, a % b)

\* the rational n/d (d # 0) in lowest terms with a positive denominator
Q(n, d) ==
  LET g == GCD(Abs(n), Abs(d))
      s == IF d < 0 THEN -1 ELSE 1
  IN  [n |-> (s * n) \div g, d |-> (s * d) \div g]

QInt(i) == [n |-> i, d |-> 1]
QMul(a, b) == Q(a.n * b.n, a.d * b.d)
QDiv(a, b) == Q(a.n * b.d, a.d * b.n)
QAdd(a, b) == Q(a.n * b.d + b.n * a.d, a.d * b.d)
QSub(a, b) == Q(a.n * b.d - b.n * a.d, a.d * b.d)

QLeq(a, b) == a.n * b.d <= b.n * a.d
QLt(a, b) == a.n * b.d < b.n * a.d
\* Math.ceil
QCeil(a) == -((-a.n) \div a.d)

\* an array given element by element, as a sequence value
Array(f) == f \o <<>>

(***************************************************************************)
(* JS numbers as they are stored: IEEE 754 binary64, round to nearest,     *)
(* ties to even.  A positive number in the normal range is [m, e] with     *)
(* value m * 2^e and 2^52 <= m < 2^53, so equal numbers are equal records. *)
(* The significand m is a natural number given by its limbs to the base    *)
(* LimbBase, least significant first (0 is <<>>).  The quantities of the   *)
(* planner are positive; zero, signs, subnormals and infinities are not    *)
(* represented.                                                            *)
(***************************************************************************)
SignificandBits == 53
LimbBits == 15
LimbBase == 2^LimbBits

Zeros(n) == [i \in 1..n |-> 0]

\* without zero limbs at the high end
Trim(x) ==
  LET nz == {i \in DOMAIN x : x[i] # 0}
  IN  IF nz = {} THEN <<>>
      ELSE SubSeq(x, 1, CHOOSE i \in nz : \A k \in nz : k <= i)

RECURSIVE BigOf(_)
BigOf(n) == IF n = 0 THEN <<>> ELSE <<n % LimbBase>> \o BigOf(n \div LimbBase)

limb(x, i) == IF i <= Len(x) THEN x[i] ELSE 0

RECURSIVE BigAddFrom(_, _, _, _)
BigAddFrom(x, y, i, carry) ==
  IF i > Len(x) /\ i > Len(y) THEN BigOf(carry)
  ELSE LET v == limb(x, i) + limb(y, i) + carry
       IN  <<v % LimbBase>> \o BigAddFrom(x, y, i + 1, v \div LimbBase)

BigAdd(x, y) == BigAddFrom(x, y, 1, 0)

RECURSIVE BigSubFrom(_, _, _, _)
BigSubFrom(x, y, i, borrow) ==
  IF i > Len(x) THEN <<>>
  ELSE LET v == x[i] - limb(y, i) - borrow
       IN  <<IF v < 0 THEN v + LimbBase ELSE v>>
             \o BigSubFrom(x, y, i + 1, IF v < 0 THEN 1 ELSE 0)

\* x - y for x >= y
BigSub(x, y) == Trim(BigSubFrom(x, y, 1, 0))

BigGeq(x, y) ==
  IF Len(x) # Len(y) THEN Len(x) > Len(y)
  ELSE LET diff == {i \in DOMAIN x : x[i] # y[i]}
           top == CHOOSE i \in diff : \A k \in diff : k <= i
       IN  diff = {} \/ x[top] > y[top]

RECURSIVE BigMulSmallFrom(_, _, _, _)
BigMulSmallFrom(x, k, i, carry) ==
  IF i > Len(x) THEN BigOf(carry)
  ELSE LET v == x[i] * k + carry
       IN  <<v % LimbBase>> \o BigMulSmallFrom(x, k, i + 1, v \div LimbBase)

\* x * k for a limb k
BigMulSmall(x, k) == Trim(BigMulSmallFrom(x, k, 1, 0))

\* x * LimbBase^n
ShiftLimbs(x, n) == IF x = <<>> THEN <<>> ELSE Zeros(n) \o x

RECURSIVE BigMulFrom(_, _, _)
BigMulFrom(x, y, i) ==
  IF i > Len(y) THEN <<>>
  ELSE BigAdd(BigMulSmall(x, y[i]), ShiftLimbs(BigMulFrom(x, y, i + 1), 1))

BigMul(x, y) == BigMulFrom(x, y, 1)

RECURSIVE QuotientLimb(_, _, _, _)
\* the largest k in lo..hi with k * d <= r (lo satisfies it)
QuotientLimb(r, d, lo, hi) ==
  IF lo = hi THEN lo
  ELSE LET mid == (lo + hi + 1) \div 2
       IN  IF BigGeq(r, BigMulSmall(d, mid))
           THEN QuotientLimb(r, d, mid, hi)
           ELSE QuotientLimb(r, d, lo, mid - 1)

RECURSIVE BigDivFrom(_, _, _, _, _)
\* long division of the limbs i, i - 1, ..., 1 of n by d; q holds the
\* quotient limbs found so far, r the remainder carried in
BigDivFrom(n, d, i, q, r) ==
  IF i = 0 THEN [q |-> Trim(q), r |-> r]
  ELSE LET r1 == Trim(<<n[i]>> \o r)
           k == QuotientLimb(r1, d, 0, LimbBase - 1)
       IN  IF k = 0 THEN BigDivFrom(n, d, i - 1, <<0>> \o q, r1)
           ELSE BigDivFrom(n, d, i - 1, <<k>> \o q, BigSub(r1, BigMulSmall(d, k)))

\* quotient and remainder of n by d > 0
BigDivMod(n, d) == BigDivFrom(n, d, Len(n), <<>>, <<>>)

RECURSIVE SmallBitLen(_)
SmallBitLen(n) == IF n = 0 THEN 0 ELSE 1 + SmallBitLen(n \div 2)

BitLen(x) == IF x = <<>> THEN 0 ELSE (Len(x) - 1) * LimbBits + SmallBitLen(x[Len(x)])

\* x * 2^s
ShiftLeftBits(x, s) == ShiftLimbs(BigMulSmall(x, 2^(s % LimbBits)), s \div LimbBits)

\* floor(x / 2^s)
ShiftRightBits(x, s) ==
  LET t == s % LimbBits
      y == SubSeq(x, (s \div LimbBits) + 1, Len(x))
  IN  Trim([i \in DOMAIN y |->
              (y[i] \div 2^t) + (limb(y, i + 1) % 2^t) * 2^(LimbBits - t)])

\* bit number pos of x, counted from 0 at the low end
BitAt(x, pos) == (limb(x, (pos \div LimbBits) + 1) \div 2^(pos % LimbBits)) % 2

\* x is a multiple of 2^s
LowBitsZero(x, s) == ShiftLeftBits(ShiftRightBits(x, s), s) = x

\* the binary64 value nearest to x * 2^e (plus a fraction of the last place
\* of x when sticky), ties to even
Round(x, e, sticky) ==
  LET n == BitLen(x)
      s == n - SignificandBits
      keep == ShiftRightBits(x, s)
      rest == sticky \/ ~LowBitsZero(x, s - 1)
      up == BitAt(x, s - 1) = 1 /\ (rest \/ keep[1] % 2 = 1)
      m == IF up THEN BigAdd(keep, <<1>>) ELSE keep
  IN  IF s <= 0 THEN [m |-> ShiftLeftBits(x, -s), e |-> e + s]
      ELSE IF BitLen(m) > SignificandBits
      THEN [m |-> ShiftRightBits(m, 1), e |-> e + s + 1]
      ELSE [m |-> m, e |-> e + s]

\* the number n, for an integer n >= 1
Num(n) == Round(BigOf(n), 0, FALSE)

\* a * b
NumMul(a, b) == Round(BigMul(a.m, b.m), a.e + b.e, FALSE)

\* a / b
NumDiv(a, b) ==
  LET dm == BigDivMod(ShiftLeftBits(a.m, SignificandBits + 2), b.m)
  IN  Round(dm.q, a.e - b.e - (SignificandBits + 2), dm.r # <<>>)

\* a <= b
NumLeq(a, b) == IF a.e # b.e THEN a.e < b.e ELSE BigGeq(b.m, a.m)

\* a < b
NumLt(a, b) == a # b /\ NumLeq(a, b)

(***************************************************************************)
(* Configuration constants.                                                *)
(***************************************************************************)
MINER_TIERS == [t \in {"Mk.1", "Mk.2", "Mk.3"} |->
  [baseRate |-> CASE t = "Mk.1" -> 60 [] t = "Mk.2" -> 120 [] t = "Mk.3" -> 240]]

PURITY_LEVELS == [p \in {"impure", "normal", "pure"} |->
  [multiplier |-> CASE p = "impure" -> Q(1, 2) [] p = "normal" -> Q(1, 1) [] p = "pure" -> Q(2, 1)]]

\* Object.entries order of the tables
BELT_TIERS == << [tier |-> "Mk.1", capacity |-> 60],
                 [tier |-> "Mk.2", capacity |-> 120],
                 [tier |-> "Mk.3", capacity |-> 270],
                 [tier |-> "Mk.4", capacity |-> 480],
                 [tier |-> "Mk.5", capacity |-> 780],
                 [tier |-> "Mk.6", capacity |-> 1200] >>

PIPE_TIERS == << [tier |-> "Mk.1", capacity |-> 300],
                 [tier |-> "Mk.2", capacity |-> 600] >>

(***************************************************************************)
(* The catalog (data/items.json, data/recipes.json): a small catalog in    *)
(* the format the code reads, with one recipe per output item.             *)
(***************************************************************************)
items == <<
  [id |-> "iron-ore",       category |-> "Ore",        isLiquid |-> FALSE],
  [id |-> "coal",           category |-> "Ore",        isLiquid |-> FALSE],
  [id |-> "crude-oil",      category |-> "Liquid",     isLiquid |-> TRUE],
  [id |-> "iron-ingot",     category |-> "Ingot",      isLiquid |-> FALSE],
  [id |-> "iron-plate",     category |-> "Standard",   isLiquid |-> FALSE],
  [id |-> "plastic",        category |-> "Standard",   isLiquid |-> FALSE],
  [id |-> "empty-canister", category |-> "Standard",   isLiquid |-> FALSE],
  [id |-> "iron-frame",     category |-> "Industrial", isLiquid |-> FALSE] >>

recipes == <<
  [output |-> "iron-ingot", outputAmount |-> 1, cycleTime |-> 2, building |-> "Smelter",
   inputs |-> << [itemId |-> "iron-ore", amount |-> 1] >>],
  [output |-> "iron-plate", outputAmount |-> 2, cycleTime |-> 6, building |-> "Constructor",
   inputs |-> << [itemId |-> "iron-ingot", amount |-> 3] >>],
  [output |-> "iron-frame", outputAmount |-> 1, cycleTime |-> 12, building |-> "Assembler",
   inputs |-> << [itemId |-> "iron-plate", amount |-> 6], [itemId |-> "iron-ingot", amount |-> 4] >>],
  [output |-> "plastic", outputAmount |-> 2, cycleTime |-> 6, building |-> "Refinery",
   inputs |-> << [itemId |-> "crude-oil", amount |-> 3] >>],
  [output |-> "empty-canister", outputAmount |-> 4, cycleTime |-> 4, building |-> "Constructor",
   inputs |-> << [itemId |-> "plastic", amount |-> 2] >>],
  [output |-> "coal", outputAmount |-> 12, cycleTime |-> 6, building |-> "Converter",
   inputs |-> << [itemId |-> "iron-ore", amount |-> 18] >>],
  [output |-> "water", outputAmount |-> 5, cycleTime |-> 6, building |-> "Converter",
   inputs |-> << [itemId |-> "crude-oil", amount |-> 2] >>] >>

ItemIds == {items[i].id : i \in DOMAIN items}
\* ids handed to the resolver directly: the catalog's and ids it does not list
UnknownId == "unknown-item"
AllIds == ItemIds \cup {UnknownId, "water", "nitrogen-gas"}

\* (the absent value of a lookup: recipes.find(...) === undefined)
NoRecipe == [output |-> "", outputAmount |-> 0, cycleTime |-> 0, building |-> "", inputs |-> <<>>]
NoItem == [id |-> "", category |-> "", isLiquid |-> FALSE]

getItem(itemId) ==
  IF \E i \in DOMAIN items : items[i].id = itemId
  THEN items[CHOOSE i \in DOMAIN items :
               items[i].id = itemId /\ \A j \in 1..(i - 1) : items[j].id # itemId]
  ELSE NoItem

getRecipeForItem(itemId) ==
  IF \E i \in DOMAIN recipes : recipes[i].output = itemId
  THEN recipes[CHOOSE i \in DOMAIN recipes :
                 recipes[i].output = itemId /\ \A j \in 1..(i - 1) : recipes[j].output # itemId]
  ELSE NoRecipe

isOre(itemId) == getItem(itemId) # NoItem /\ getItem(itemId).category = "Ore"

isLiquid(itemId) == getItem(itemId) # NoItem /\ getItem(itemId).isLiquid = TRUE

isLiquidSource(itemId) ==
  itemId = "water" \/ itemId = "crude-oil" \/ itemId = "nitrogen-gas"

(***************************************************************************)
(* Rate/quantity engine.                                                   *)
(***************************************************************************)
RECURSIVE FirstFitStrict(_, _, _)
FirstFitStrict(table, rate, i) ==
  IF i > Len(table) THEN 0
  ELSE IF QLt(rate, QInt(table[i].capacity)) THEN i
  ELSE FirstFitStrict(table, rate, i + 1)

RECURSIVE FirstFit(_, _, _)
\* the for-of scan of a tier table: the first entry with rate <= capacity
FirstFit(table, rate, i) ==
  IF i > Len(table) THEN 0
  ELSE IF QLeq(rate, QInt(table[i].capacity)) THEN i
  ELSE FirstFit(table, rate, i + 1)

getRequiredBeltTier(rate) ==
  LET i == FirstFit(BELT_TIERS, rate, 1)
  IN  IF i # 0
      THEN [tier |-> BELT_TIERS[i].tier, capacity |-> BELT_TIERS[i].capacity, isOverLimit |-> FALSE]
      ELSE [tier |-> "LIMIT", capacity |-> 1200, isOverLimit |-> TRUE]

getRequiredPipeTier(rate) ==
  LET i == FirstFit(PIPE_TIERS, rate, 1)
  IN  IF i # 0
      THEN [tier |-> PIPE_TIERS[i].tier, capacity |-> PIPE_TIERS[i].capacity, isOverLimit |-> FALSE]
      ELSE [tier |-> "LIMIT", capacity |-> 600, isOverLimit |-> TRUE]

calculateMinerOutput(tier, purity) ==
  QMul(QInt(MINER_TIERS[tier].baseRate), PURITY_LEVELS[purity].multiplier)

calculateMachineRate(recipe) ==
  IF recipe = NoRecipe THEN QInt(0)
  ELSE QMul(Q(recipe.outputAmount, recipe.cycleTime), QInt(60))

calculateMachinesNeededFloor(amount, productionTimeMinutes, recipe) ==
  IF recipe = NoRecipe \/ QLeq(productionTimeMinutes, QInt(0))
  THEN [rounded |-> 1, exact |-> QInt(1)]
  ELSE LET exactMachines == QDiv(QDiv(amount, productionTimeMinutes),
                                 calculateMachineRate(recipe))
       IN  [rounded |-> exactMachines.n \div exactMachines.d, exact |-> exactMachines]

calculateMachinesNeeded(amount, productionTimeMinutes, recipe) ==
  IF recipe = NoRecipe \/ QLeq(productionTimeMinutes, QInt(0))
  THEN [rounded |-> 1, exact |-> QInt(1)]
  ELSE LET requiredRate == QDiv(amount, productionTimeMinutes)
           machineRate == calculateMachineRate(recipe)
           exactMachines == QDiv(requiredRate, machineRate)
       IN  [rounded |-> QCeil(exactMachines), exact |-> exactMachines]

(***************************************************************************)
(* Chain resolver.  The result carries the counter so that the caller      *)
(* sees the increments the callee made on the shared { value } object.     *)
(***************************************************************************)
isTerminalItemNoRecipe(itemId) == getRecipeForItem(itemId) = NoRecipe

\* the test of the base case
isTerminalItem(itemId) ==
  getRecipeForItem(itemId) = NoRecipe \/ isOre(itemId) \/ isLiquidSource(itemId)

extractorBuilding(itemId) ==
  IF itemId = "water" THEN "WaterExtractor"
  ELSE IF itemId = "crude-oil" THEN "OilExtractor"
  ELSE IF itemId = "nitrogen-gas" THEN "ResourceWellExtractor"
  ELSE "Miner"

\* the node pushed in the base case
extractorNodeRounded(nodeId, itemId, targetAmt, depth) ==
  [id |-> nodeId, itemId |-> itemId, building |-> extractorBuilding(itemId),
   amount |-> QInt(QCeil(targetAmt)), depth |-> depth, isOre |-> isOre(itemId),
   isLiquidSource |-> isLiquidSource(itemId), isExtractor |-> TRUE]

extractorNodeById(nodeId, itemId, targetAmt, depth) ==
  [id |-> nodeId, itemId |-> itemId, building |-> extractorBuilding(itemId),
   amount |-> Q(targetAmt.n + nodeId * targetAmt.d, targetAmt.d), depth |-> depth,
   isOre |-> isOre(itemId),
   isLiquidSource |-> isLiquidSource(itemId), isExtractor |-> TRUE]

extractorNode(nodeId, itemId, targetAmt, depth) ==
  [id |-> nodeId, itemId |-> itemId, building |-> extractorBuilding(itemId),
   amount |-> targetAmt, depth |-> depth, isOre |-> isOre(itemId),
   isLiquidSource |-> isLiquidSource(itemId), isExtractor |-> TRUE]

\* the node pushed for a building; it has no isOre/isExtractor flags
machineNode(nodeId, itemId, targetAmt, depth, recipe) ==
  [id |-> nodeId, itemId |-> itemId, building |-> recipe.building,
   amount |-> targetAmt, depth |-> depth, isOre |-> FALSE,
   isLiquidSource |-> FALSE, isExtractor |-> FALSE]

\* const cyclesNeeded = targetAmt / outputPerCycle
cyclesNeededFor(targetAmt, recipe) == QDiv(targetAmt, QInt(recipe.outputAmount))

inputAmountRounded(input, cyclesNeeded) ==
  QInt(QCeil(QMul(QInt(input.amount), cyclesNeeded)))

\* const inputAmount = input.amount * cyclesNeeded
inputAmountFor(input, cyclesNeeded) == QMul(QInt(input.amount), cyclesNeeded)

\* the edge pushed for one recipe input
makeEdge(sourceId, nodeId, inputAmount, input) ==
  [id |-> <<sourceId, nodeId>>, source |-> sourceId, target |-> nodeId,
   label |-> QCeil(inputAmount),
   data |-> [amount |-> inputAmount, itemId |-> input.itemId]]

RECURSIVE calculateProductionChain(_, _, _, _)
RECURSIVE resolveInputs(_, _, _, _, _, _)

resolveInputsLeafSource(recipe, i, cyclesNeeded, depth, nodeId, acc) ==
  IF i > Len(recipe.inputs) THEN acc
  ELSE LET input == recipe.inputs[i]
           inputAmount == inputAmountFor(input, cyclesNeeded)
           subChain == calculateProductionChain(input.itemId, inputAmount, depth + 1, acc.counter)
       IN  resolveInputs(recipe, i + 1, cyclesNeeded, depth, nodeId,
             [nodes |-> acc.nodes \o subChain.nodes,
              edges |-> Append(acc.edges,
                          makeEdge(subChain.nodes[Len(subChain.nodes)].id, nodeId,
                                   inputAmount, input))
                        \o subChain.edges,
              counter |-> subChain.counter])

resolveInputsMerged(recipe, i, cyclesNeeded, depth, nodeId, acc) ==
  IF i > Len(recipe.inputs) THEN acc
  ELSE LET input == recipe.inputs[i]
           inputAmount == inputAmountFor(input, cyclesNeeded)
           known == {j \in DOMAIN acc.nodes : acc.nodes[j].itemId = input.itemId}
           subChain == calculateProductionChain(input.itemId, inputAmount, depth + 1, acc.counter)
       IN  IF known # {}
           THEN resolveInputs(recipe, i + 1, cyclesNeeded, depth, nodeId,
                  [nodes |-> acc.nodes,
                   edges |-> Append(acc.edges,
                               makeEdge(acc.nodes[CHOOSE j \in known : TRUE].id, nodeId,
                                        inputAmount, input)),
                   counter |-> acc.counter])
           ELSE resolveInputs(recipe, i + 1, cyclesNeeded, depth, nodeId,
                  [nodes |-> acc.nodes \o subChain.nodes,
                   edges |-> Append(acc.edges,
                               makeEdge(subChain.nodes[1].id, nodeId, inputAmount, input))
                             \o subChain.edges,
                   counter |-> subChain.counter])

\* the for-of loop over recipe.inputs, from input i on; acc is the result so far
resolveInputs(recipe, i, cyclesNeeded, depth, nodeId, acc) ==
  IF i > Len(recipe.inputs) THEN acc
  ELSE LET input == recipe.inputs[i]
           inputAmount == inputAmountFor(input, cyclesNeeded)
           subChain == calculateProductionChain(input.itemId, inputAmount, depth + 1, acc.counter)
           edges1 == IF Len(subChain.nodes) > 0
                     THEN Append(acc.edges, makeEdge(subChain.nodes[1].id, nodeId, inputAmount, input))
                     ELSE acc.edges
       IN  resolveInputs(recipe, i + 1, cyclesNeeded, depth, nodeId,
                         [nodes |-> acc.nodes \o subChain.nodes,
                          edges |-> edges1 \o subChain.edges,
                          counter |-> subChain.counter])

calculateProductionChain(itemId, targetAmt, depth, nodeIdCounter) ==
  LET recipe == getRecipeForItem(itemId)
      nodeId == nodeIdCounter
  IN  IF isTerminalItem(itemId)
      THEN [nodes |-> << extractorNode(nodeId, itemId, targetAmt, depth) >>,
            edges |-> <<>>,
            counter |-> nodeIdCounter + 1]
      ELSE resolveInputs(recipe, 1, cyclesNeededFor(targetAmt, recipe), depth, nodeId,
                         [nodes |-> << machineNode(nodeId, itemId, targetAmt, depth, recipe) >>,
                          edges |-> <<>>,
                          counter |-> nodeIdCounter + 1])

resolveFromOne(itemId, targetAmt) ==
  LET r == calculateProductionChain(itemId, targetAmt, 0, 1)
  IN  [nodes |-> r.nodes, edges |-> r.edges]

\* a top-level call: depth = 0, nodeIdCounter = { value: 0 }
resolve(itemId, targetAmt) ==
  LET r == calculateProductionChain(itemId, targetAmt, 0, 0)
  IN  [nodes |-> r.nodes, edges |-> r.edges]


(***************************************************************************)
(* Topological ranker.  Null stands for the rank `null` of a node the      *)
(* ranker has not ranked yet.                                              *)
(***************************************************************************)
Null == -1

SeqMax(q) ==
  CHOOSE m \in {q[i] : i \in DOMAIN q} : \A i \in DOMAIN q : q[i] <= m

\* incomingEdges.has(id)
hasIncoming(chain, id) == \E i \in DOMAIN chain.edges : chain.edges[i].target = id

RECURSIVE sourcesFrom(_, _, _)
\* incomingEdges.get(id): the sources of the edges into id, in edge order
sourcesFrom(chain, id, i) ==
  IF i > Len(chain.edges) THEN <<>>
  ELSE IF chain.edges[i].target = id
       THEN <<chain.edges[i].source>> \o sourcesFrom(chain, id, i + 1)
       ELSE sourcesFrom(chain, id, i + 1)

incomingEdges(chain, id) == sourcesFrom(chain, id, 1)

\* the seeding pass: rank 0 for extractors and for nodes without incoming edges
seedRankOreOnly(chain, node) == IF node.isOre THEN 0 ELSE Null

seedRank(chain, node) ==
  IF node.isOre \/ node.isExtractor \/ ~hasIncoming(chain, node.id)
     \/ Len(incomingEdges(chain, node.id)) = 0
  THEN 0 ELSE Null

\* nodeMap: the entry of chain.nodes[i] is position i; nodeMap.has(id)
inNodeMap(chain, id) == \E i \in DOMAIN chain.nodes : chain.nodes[i].id = id
nodeIndex(chain, id) == CHOOSE i \in DOMAIN chain.nodes : chain.nodes[i].id = id

\* ranks[i] is the rank held by the nodeMap entry of chain.nodes[i]
seedRanks(chain) ==
  Array([i \in DOMAIN chain.nodes |-> seedRank(chain, chain.nodes[i])])

SeqMin(q) ==
  CHOOSE m \in {q[i] : i \in DOMAIN q} : \A i \in DOMAIN q : m <= q[i]

relaxedRankMin(sourceRanks) == SeqMin(sourceRanks) + 1

relaxedRankSkip(sourceRanks) == SeqMax(sourceRanks) + 2

\* node.rank = Math.max(...sourceRanks) + 1
relaxedRank(sourceRanks) == SeqMax(sourceRanks) + 1

\* the body of the relaxation forEach for the node at position i
relaxNode(chain, ranks, i) ==
  IF ranks[i] # Null THEN ranks
  ELSE LET sources == incomingEdges(chain, chain.nodes[i].id)
           ranked == \A k \in DOMAIN sources :
                        inNodeMap(chain, sources[k])
                        /\ ranks[nodeIndex(chain, sources[k])] # Null
       IN  \* (a node without sources was seeded, so sources is not empty here)
           IF ranked /\ Len(sources) > 0
           THEN [ranks EXCEPT ![i] =
                   relaxedRank(Array([k \in DOMAIN sources |->
                                        ranks[nodeIndex(chain, sources[k])]]))]
           ELSE ranks

RECURSIVE relaxPass(_, _, _, _)
\* one iteration of the while loop: nodeMap.forEach in insertion order
relaxPass(chain, ranks, i, changed) ==
  IF i > Len(chain.nodes) THEN [ranks |-> ranks, changed |-> changed]
  ELSE LET next == relaxNode(chain, ranks, i)
       IN  relaxPass(chain, next, i + 1, changed \/ next # ranks)

relaxOnce(chain, ranks) == relaxPass(chain, ranks, 1, FALSE).ranks

RECURSIVE relaxLoop(_, _)
\* while (changed) { ... }
relaxLoop(chain, ranks) ==
  LET p == relaxPass(chain, ranks, 1, FALSE)
  IN  IF p.changed THEN relaxLoop(chain, p.ranks) ELSE p.ranks

withRank(node, rank) ==
  [id |-> node.id, itemId |-> node.itemId, building |-> node.building,
   amount |-> node.amount, depth |-> node.depth, isOre |-> node.isOre,
   isLiquidSource |-> node.isLiquidSource, isExtractor |-> node.isExtractor,
   rank |-> rank]

calculateTopologicalRanks(chain) ==
  LET ranks == relaxLoop(chain, seedRanks(chain))
  IN  Array([i \in DOMAIN chain.nodes |->
         withRank(chain.nodes[i],
                  \* nodeMap.get(node.id)?.rank ?? 0
                  IF ranks[nodeIndex(chain, chain.nodes[i].id)] = Null THEN 0
                  ELSE ranks[nodeIndex(chain, chain.nodes[i].id)])])

(***************************************************************************)
(* Rendering: what the App component derives from its state.               *)
(***************************************************************************)
\* productionChain === null
NullChain == [nodes |-> <<>>, edges |-> <<>>]
\* targetItem === null
NoTarget == ""

DefaultSettings == [tier |-> "Mk.1", purity |-> "normal"]

\* The settings object is modelled by the set of its entries
\* [id, tier, purity], one per key.
hasSettings(settings, id) == \E e \in settings : e.id = id
entryOf(settings, id) == CHOOSE e \in settings : e.id = id
entry(id, tier, purity) == [id |-> id, tier |-> tier, purity |-> purity]

\* minerSettings[node.id] || { tier: 'Mk.1', purity: 'normal' }
settingsOf(settings, id) ==
  IF hasSettings(settings, id)
  THEN [tier |-> entryOf(settings, id).tier, purity |-> entryOf(settings, id).purity]
  ELSE DefaultSettings

\* the nodes the production-time memo and the settings initialisation look at
oreNodeFilter(node) == node.isOre

RECURSIVE SelectNodes(_, _)
\* chain.nodes.filter(n => n.isOre)
SelectNodes(nodes, i) ==
  IF i > Len(nodes) THEN <<>>
  ELSE IF oreNodeFilter(nodes[i])
       THEN <<nodes[i]>> \o SelectNodes(nodes, i + 1)
       ELSE SelectNodes(nodes, i + 1)

oreNodesOf(chain) == SelectNodes(chain.nodes, 1)

initMinerSettingsReset(chain, prev) ==
  IF chain = NullChain THEN prev
  ELSE {entry(oreNodesOf(chain)[i].id, DefaultSettings.tier, DefaultSettings.purity) :
          i \in DOMAIN oreNodesOf(chain)}

\* the settings initialisation memo: defaults for ore nodes without an entry
initMinerSettings(chain, prev) ==
  IF chain = NullChain THEN prev
  ELSE LET ids == {oreNodesOf(chain)[i].id : i \in DOMAIN oreNodesOf(chain)}
       IN  prev \cup {entry(id, DefaultSettings.tier, DefaultSettings.purity) :
                         id \in {i \in ids : ~hasSettings(prev, i)}}

\* node.amount / calculateMinerOutput(settings.tier, settings.purity)
miningTimeOf(node, settings) ==
  QDiv(node.amount,
       calculateMinerOutput(settingsOf(settings, node.id).tier,
                            settingsOf(settings, node.id).purity))

RECURSIVE slowestMiner(_, _, _, _)
\* oreNodes.forEach: keep the strictly longest mining time seen so far
slowestMiner(oreNodes, settings, i, acc) ==
  IF i > Len(oreNodes) THEN acc
  ELSE LET miningTime == miningTimeOf(oreNodes[i], settings)
       IN  slowestMiner(oreNodes, settings, i + 1,
             IF QLt(acc.totalMinutes, miningTime)
             THEN [present |-> TRUE, totalMinutes |-> miningTime,
                   bottleneckItem |-> oreNodes[i].itemId]
             ELSE acc)

\* productionTimeInfo === null
NoTimeInfo == [present |-> FALSE, totalMinutes |-> QInt(0), bottleneckItem |-> ""]

productionTimeInfo(chain, settings) ==
  IF chain = NullChain THEN NoTimeInfo
  ELSE IF Len(oreNodesOf(chain)) = 0 THEN NoTimeInfo
  ELSE slowestMiner(oreNodesOf(chain), settings, 1,
                    [present |-> TRUE, totalMinutes |-> QInt(0), bottleneckItem |-> ""])

\* productionTimeInfo?.totalMinutes || 1
totalMinutesOf(info) ==
  IF ~info.present \/ info.totalMinutes = QInt(0) THEN QInt(1) ELSE info.totalMinutes

\* the nodes rendered as a MinerNode, with the tier and purity selects
isMinerNode(node) == node.isOre \/ node.isExtractor

\* one React Flow node of chainToFlowNodes
flowNode(node, lang, settings, productionTimeMinutes) ==
  IF isMinerNode(node)
  THEN [id |-> node.id, type |-> "minerNode",
        position |-> [x |-> node.rank * 320 + 50],
        data |-> [itemName |-> <<node.itemId, lang>>,
                  requiredAmount |-> node.amount,
                  minerTier |-> settingsOf(settings, node.id).tier,
                  purity |-> settingsOf(settings, node.id).purity,
                  language |-> lang, rank |-> node.rank,
                  buildingType |-> node.building,
                  isLiquidSource |-> node.isLiquidSource]]
  ELSE LET recipe == getRecipeForItem(node.itemId)
           machineInfo == calculateMachinesNeeded(node.amount, productionTimeMinutes, recipe)
       IN  [id |-> node.id, type |-> "machineNode",
            position |-> [x |-> node.rank * 320 + 50],
            data |-> [itemName |-> <<node.itemId, lang>>,
                      buildingName |-> <<node.building, lang>>,
                      buildingType |-> node.building,
                      amount |-> QCeil(node.amount),
                      machineCount |-> machineInfo.rounded,
                      exactMachineCount |-> machineInfo.exact,
                      machineRate |-> calculateMachineRate(recipe),
                      language |-> lang, rank |-> node.rank]]

chainToFlowNodes(chain, lang, settings, productionTimeMinutes) ==
  LET rankedNodes == calculateTopologicalRanks(chain)
  IN  Array([i \in DOMAIN rankedNodes |->
         flowNode(rankedNodes[i], lang, settings, productionTimeMinutes)])

transportTierBeltOnly(itemIsLiquid, requiredRate) ==
  getRequiredBeltTier(requiredRate)

\* the tier of one edge: pipes for liquids, belts for solids
transportTier(itemIsLiquid, requiredRate) ==
  IF itemIsLiquid THEN getRequiredPipeTier(requiredRate)
  ELSE getRequiredBeltTier(requiredRate)

\* const requiredRate = amount / totalMinutes
requiredRateOf(amount, totalMinutes) == QDiv(amount, totalMinutes)

\* one element of productionChain.edges.map(...)
flowEdge(edge, totalMinutes) ==
  LET amount == edge.data.amount
      itemId == edge.data.itemId
      requiredRate == requiredRateOf(amount, totalMinutes)
      itemIsLiquid == isLiquid(itemId)
      tierInfo == transportTier(itemIsLiquid, requiredRate)
  IN  [id |-> edge.id, source |-> edge.source, target |-> edge.target,
       label |-> [amount |-> QCeil(amount), unit |-> IF itemIsLiquid THEN "m3" ELSE "x",
                  limit |-> tierInfo.isOverLimit, tier |-> tierInfo.tier],
       data |-> [amount |-> amount, itemId |-> itemId,
                 requiredRate |-> requiredRate, tier |-> tierInfo.tier,
                 isOverLimit |-> tierInfo.isOverLimit, isLiquid |-> itemIsLiquid]]

flowEdges(chain, info) ==
  Array([i \in DOMAIN chain.edges |-> flowEdge(chain.edges[i], totalMinutesOf(info))])

\* the memo values of the current render
ProductionTimeInfo == productionTimeInfo(productionChain, minerSettings)
FlowNodes ==
  IF productionChain = NullChain THEN <<>>
  ELSE chainToFlowNodes(productionChain, language, minerSettings,
                        totalMinutesOf(ProductionTimeInfo))
FlowEdges ==
  IF productionChain = NullChain THEN <<>>
  ELSE flowEdges(productionChain, ProductionTimeInfo)


(***************************************************************************)
(* The amount input: e.target.value is a sequence of characters.           *)
(***************************************************************************)
Digits == <<"0", "1", "2", "3", "4", "5", "6", "7", "8", "9">>
IsDigit(c) == \E k \in DOMAIN Digits : Digits[k] = c
DigitValue(c) == (CHOOSE k \in DOMAIN Digits : Digits[k] = c) - 1

RECURSIVE parseDigits(_, _, _, _)
\* the longest prefix of digits from position i on: [nan, value]
parseDigits(str, i, seen, acc) ==
  IF i > Len(str) \/ ~IsDigit(str[i])
  THEN [nan |-> ~seen, value |-> acc]
  ELSE parseDigits(str, i + 1, TRUE, 10 * acc + DigitValue(str[i]))

RECURSIVE skipSpaces(_, _)
skipSpaces(str, i) ==
  IF i <= Len(str) /\ str[i] = " " THEN skipSpaces(str, i + 1) ELSE i

\* parseInt(str): leading blanks, an optional sign, then decimal digits
parseInt(str) ==
  LET i == skipSpaces(str, 1)
      signed == i <= Len(str) /\ str[i] \in {"-", "+"}
      p == parseDigits(str, IF signed THEN i + 1 ELSE i, FALSE, 0)
  IN  IF signed /\ str[i] = "-" THEN [nan |-> p.nan, value |-> -p.value] ELSE p

amountFromInputUnclamped(str) ==
  LET p == parseInt(str)
  IN  IF p.nan \/ p.value = 0 THEN 1 ELSE p.value

\* Math.max(1, parseInt(e.target.value) || 1)
amountFromInput(str) ==
  LET p == parseInt(str)
      v == IF p.nan \/ p.value = 0 THEN 1 ELSE p.value
  IN  IF v < 1 THEN 1 ELSE v

\* what the user types into the amount field
AmountInputs ==
  { <<>>, <<"-", "5">>, <<"7", ".", "5">>, <<"5", "0", "0", "0">> }

(***************************************************************************)
(* The App component: state after construction and one action per handler. *)
(* Each action includes the re-render it causes: the productionChain memo  *)
(* is recomputed when targetItem or targetAmount changed, and the settings *)
(* initialisation memo runs when productionChain changed.                  *)
(*   resolved: the productionChain memo called the resolver in the last    *)
(*            render;                                                      *)
(*   changes: the number of tier/purity selections made (bounded);         *)
(*   call:    the last call of a function exercised on its own.            *)
(***************************************************************************)
NoCall == [fn |-> "none"]

Init ==
  /\ language = "de"
  /\ targetItem = NoTarget
  /\ targetAmount = 100
  /\ minerSettings = {}
  /\ productionChain = NullChain
  /\ resolved = FALSE
  /\ changes = 0
  /\ call = NoCall

\* the productionChain memo, for the dependencies [item, amount]
chainMemo(item, amount) ==
  IF item = NoTarget THEN NullChain ELSE resolve(item, QInt(amount))

RerenderAlways(item, amount) ==
  LET chain == chainMemo(item, amount)
  IN  /\ productionChain' = chain
      /\ resolved' = (item # NoTarget)
      /\ minerSettings' = IF chain = productionChain THEN minerSettings
                          ELSE initMinerSettings(chain, minerSettings)

\* the re-render after targetItem or targetAmount was set to (item, amount)
Rerender(item, amount) ==
  IF item = targetItem /\ amount = targetAmount
  THEN resolved' = FALSE /\ UNCHANGED <<productionChain, minerSettings>>
  ELSE LET chain == chainMemo(item, amount)
       IN  /\ productionChain' = chain
           /\ resolved' = (item # NoTarget)
           /\ minerSettings' = IF chain = productionChain THEN minerSettings
                               ELSE initMinerSettings(chain, minerSettings)

handleItemClick(itemId) ==
  /\ targetItem' = itemId
  /\ Rerender(itemId, targetAmount)
  /\ UNCHANGED <<language, targetAmount, changes, call>>

\* onChange of the amount input
handleAmountChange(str) ==
  /\ targetAmount' = amountFromInput(str)
  /\ Rerender(targetItem, amountFromInput(str))
  /\ UNCHANGED <<language, targetItem, changes, call>>

handleLanguageChange(newLang) ==
  /\ language' = newLang
  /\ resolved' = FALSE
  /\ UNCHANGED <<targetItem, targetAmount, minerSettings, productionChain,
                 changes, call>>

tierUpdateResetPurity(prev, nodeId, newTier) ==
  {e \in prev : e.id # nodeId} \cup {entry(nodeId, newTier, "normal")}

\* setMinerSettings updater of handleTierChange
tierUpdate(prev, nodeId, newTier) ==
  {e \in prev : e.id # nodeId} \cup
  {entry(nodeId, newTier,
         IF hasSettings(prev, nodeId) THEN entryOf(prev, nodeId).purity ELSE "normal")}

purityUpdateNoFallback(prev, nodeId, newPurity) ==
  {e \in prev : e.id # nodeId} \cup
  {entry(nodeId,
         IF hasSettings(prev, nodeId) THEN entryOf(prev, nodeId).tier ELSE "undefined",
         newPurity)}

\* setMinerSettings updater of handlePurityChange
purityUpdate(prev, nodeId, newPurity) ==
  {e \in prev : e.id # nodeId} \cup
  {entry(nodeId,
         IF hasSettings(prev, nodeId) THEN entryOf(prev, nodeId).tier ELSE "Mk.1",
         newPurity)}

\* the ids of the miner nodes on screen: the selects that can call the handlers
MinerNodeIds ==
  {productionChain.nodes[i].id :
     i \in {j \in DOMAIN productionChain.nodes : isMinerNode(productionChain.nodes[j])}}

handleTierChange(nodeId, newTier) ==
  /\ minerSettings' = tierUpdate(minerSettings, nodeId, newTier)
  /\ changes' = changes + 1
  /\ resolved' = FALSE
  /\ UNCHANGED <<language, targetItem, targetAmount, productionChain, call>>

handlePurityChange(nodeId, newPurity) ==
  /\ minerSettings' = purityUpdate(minerSettings, nodeId, newPurity)
  /\ changes' = changes + 1
  /\ resolved' = FALSE
  /\ UNCHANGED <<language, targetItem, targetAmount, productionChain, call>>

ItemClick == \E itemId \in ItemIds : handleItemClick(itemId)
AmountChange == \E str \in AmountInputs : handleAmountChange(str)
LanguageChange == \E newLang \in {"de", "en"} : handleLanguageChange(newLang)
TierChange ==
  /\ changes < MaxChanges
  /\ \E nodeId \in MinerNodeIds : \E newTier \in DOMAIN MINER_TIERS :
        handleTierChange(nodeId, newTier)
PurityChange ==
  /\ changes < MaxChanges
  /\ \E nodeId \in MinerNodeIds : \E newPurity \in DOMAIN PURITY_LEVELS :
        handlePurityChange(nodeId, newPurity)

Next == ItemClick \/ AmountChange \/ LanguageChange \/ TierChange \/ PurityChange

Spec == Init /\ [][Next]_vars

(***************************************************************************)
(* The miner settings on their own: target selections and up to            *)
(* MaxSettingChanges tier/purity selections at the initial amount and      *)
(* language.                                                               *)
(***************************************************************************)
SelectTarget == \E itemId \in ItemIds : handleItemClick(itemId)
SelectTier ==
  /\ changes < MaxSettingChanges
  /\ \E nodeId \in MinerNodeIds : \E newTier \in DOMAIN MINER_TIERS :
        handleTierChange(nodeId, newTier)
SelectPurity ==
  /\ changes < MaxSettingChanges
  /\ \E nodeId \in MinerNodeIds : \E newPurity \in DOMAIN PURITY_LEVELS :
        handlePurityChange(nodeId, newPurity)

SettingsNext == SelectTarget \/ SelectTier \/ SelectPurity

SettingsSpec == Init /\ [][SettingsNext]_vars

(***************************************************************************)
(* The functions exercised on their own: each action calls one function on *)
(* inputs drawn from bounded sets and records the call in `call`.          *)
(***************************************************************************)
CallAmounts == {Q(k, 2) : k \in 0..MaxCallAmount}
PositiveCallAmounts == {a \in CallAmounts : QLt(QInt(0), a)}
CallWindows == {QInt(-1), QInt(0), Q(1, 2), QInt(1), QInt(7)}
CallRecipes == {recipes[i] : i \in DOMAIN recipes} \cup {NoRecipe}
Capacities ==
  {BELT_TIERS[i].capacity : i \in DOMAIN BELT_TIERS}
    \cup {PIPE_TIERS[i].capacity : i \in DOMAIN PIPE_TIERS}
\* rates at, just below and just above every capacity, and zero
CallRates == {QInt(0)} \cup {Q(2 * c + k, 2) : c \in Capacities, k \in {-2, -1, 0, 1, 2}}

CallResolve ==
  \E itemId \in AllIds : \E amount \in PositiveCallAmounts :
     /\ call' = [fn |-> "calculateProductionChain", itemId |-> itemId, amount |-> amount,
                 chain |-> resolve(itemId, amount),
                 again |-> resolve(itemId, amount),
                 ranked |-> calculateTopologicalRanks(resolve(itemId, amount))]
     /\ UNCHANGED <<language, targetItem, targetAmount, minerSettings, productionChain,
                    resolved, changes>>

CallMachinesNeeded ==
  \E amount \in CallAmounts : \E window \in CallWindows : \E recipe \in CallRecipes :
     /\ call' = [fn |-> "calculateMachinesNeeded", amount |-> amount, window |-> window,
                 recipe |-> recipe,
                 out |-> calculateMachinesNeeded(amount, window, recipe)]
     /\ UNCHANGED <<language, targetItem, targetAmount, minerSettings, productionChain,
                    resolved, changes>>

CallBeltTier ==
  \E rate \in CallRates :
     /\ call' = [fn |-> "getRequiredBeltTier", rate |-> rate, out |-> getRequiredBeltTier(rate)]
     /\ UNCHANGED <<language, targetItem, targetAmount, minerSettings, productionChain,
                    resolved, changes>>

CallPipeTier ==
  \E rate \in CallRates :
     /\ call' = [fn |-> "getRequiredPipeTier", rate |-> rate, out |-> getRequiredPipeTier(rate)]
     /\ UNCHANGED <<language, targetItem, targetAmount, minerSettings, productionChain,
                    resolved, changes>>

(***************************************************************************)
(* utils/calculator.js: calculateRequirements over its own recipe table    *)
(* (keyed by item id; outputs and inputs in Object.entries order).  The    *)
(* objects machines and rawResources are functions on the keys present;    *)
(* the machine key `${machine} (${name})` is the pair <<machine, name>>.   *)
(***************************************************************************)
requirementRecipes ==
  [ironIngot |->
     [outputs |-> <<[id |-> "ironIngot", amount |-> 1]>>, time |-> 2,
      machine |-> "Smelter", name |-> "Iron Ingot",
      inputs |-> <<[id |-> "ironOre", amount |-> 1]>>],
   ironPlate |->
     [outputs |-> <<[id |-> "ironPlate", amount |-> 2]>>, time |-> 6,
      machine |-> "Constructor", name |-> "Iron Plate",
      inputs |-> <<[id |-> "ironIngot", amount |-> 3]>>],
   ironRod |->
     [outputs |-> <<[id |-> "ironRod", amount |-> 1]>>, time |-> 4,
      machine |-> "Constructor", name |-> "Iron Rod",
      inputs |-> <<[id |-> "ironIngot", amount |-> 1]>>],
   screw |->
     [outputs |-> <<[id |-> "screw", amount |-> 4]>>, time |-> 6,
      machine |-> "Constructor", name |-> "Screw",
      inputs |-> <<[id |-> "ironRod", amount |-> 1]>>],
   rotor |->
     [outputs |-> <<[id |-> "rotor", amount |-> 1]>>, time |-> 15,
      machine |-> "Assembler", name |-> "Rotor",
      inputs |-> <<[id |-> "ironRod", amount |-> 5], [id |-> "screw", amount |-> 25]>>],
   cable |->
     [outputs |-> <<[id |-> "cable", amount |-> 1]>>, time |-> 2,
      machine |-> "Constructor", name |-> "Cable",
      inputs |-> <<[id |-> "copperOre", amount |-> 2], [id |-> "ironOre", amount |-> 1]>>]]

RequirementItems == DOMAIN requirementRecipes \cup {"ironOre", "copperOre"}

\* recipes[itemId], undefined as NoRecipe
requirementRecipe(itemId) ==
  IF itemId \in DOMAIN requirementRecipes THEN requirementRecipes[itemId] ELSE NoRecipe

\* obj[key] of an object given as a list of entries
entryAmount(entries, key) ==
  entries[CHOOSE i \in DOMAIN entries : entries[i].id = key].amount

EmptyObject == [k \in {} |-> QInt(0)]

overwriteKey(obj, key, value) ==
  [k \in DOMAIN obj \cup {key} |-> IF k = key THEN value ELSE obj[k]]

\* obj[key] = (obj[key] || 0) + value
addToKey(obj, key, value) ==
  [k \in DOMAIN obj \cup {key} |->
     IF k = key
     THEN (IF key \in DOMAIN obj THEN QAdd(obj[key], value) ELSE value)
     ELSE obj[k]]

machineKeyOf(recipe) == <<recipe.machine, recipe.name>>

RECURSIVE calculate(_, _, _)
RECURSIVE calculateInputs(_, _, _, _, _)

\* the for loop over Object.entries(recipe.inputs), from entry i on
calculateInputs(recipe, machinesNeeded, i, acc, cyclesPerMin) ==
  IF i > Len(recipe.inputs) THEN acc
  ELSE LET inputPerMinPerMachine == QMul(QInt(recipe.inputs[i].amount), cyclesPerMin)
           totalInputPerMin == QMul(inputPerMinPerMachine, machinesNeeded)
       IN  calculateInputs(recipe, machinesNeeded, i + 1,
                           calculate(recipe.inputs[i].id, totalInputPerMin, acc),
                           cyclesPerMin)

\* the inner function calculate(itemId, amountPerMin); acc holds the two
\* objects it writes to
calculate(itemId, amountPerMin, acc) ==
  LET recipe == requirementRecipe(itemId)
  IN  IF recipe = NoRecipe
      THEN [acc EXCEPT !.rawResources = addToKey(acc.rawResources, itemId, amountPerMin)]
      ELSE LET outputPerCycle == entryAmount(recipe.outputs, itemId)
               cyclesPerMin == Q(60, recipe.time)
               outputPerMinPerMachine == QMul(QInt(outputPerCycle), cyclesPerMin)
               machinesNeeded == QDiv(amountPerMin, outputPerMinPerMachine)
               acc1 == [acc EXCEPT !.machines =
                          addToKey(acc.machines, machineKeyOf(recipe), machinesNeeded)]
           IN  calculateInputs(recipe, machinesNeeded, 1, acc1, cyclesPerMin)

calculateRequirements(targetId, targetAmountPerMin) ==
  calculate(targetId, targetAmountPerMin,
            [machines |-> EmptyObject, rawResources |-> EmptyObject])

CallRequirements ==
  \E itemId \in RequirementItems : \E amount \in CallAmounts :
     /\ call' = [fn |-> "calculateRequirements", itemId |-> itemId, amount |-> amount,
                 out |-> calculateRequirements(itemId, amount)]
     /\ UNCHANGED <<language, targetItem, targetAmount, minerSettings, productionChain,
                    resolved, changes>>

CallNext ==
  \/ CallResolve \/ CallMachinesNeeded \/ CallBeltTier \/ CallPipeTier
  \/ CallRequirements

CallSpec == Init /\ [][CallNext]_vars

(***************************************************************************)
(* The resolver call by call, on any catalog with at most one recipe per   *)
(* output item over three items that are neither ores nor liquid sources.  *)
(* call.recipeOf is the catalog, call.stack the active calls, innermost    *)
(* last: each frame holds the call's item and the position of the recipe   *)
(* input its for-of loop is at.                                            *)
(***************************************************************************)
SmallItems == {"x", "y", "z"}

InputLists ==
  {<<a>> : a \in SmallItems} \cup {<<a, b>> : a \in SmallItems, b \in SmallItems}

\* one recipe per output item, or none
SmallCatalogs ==
  [SmallItems -> {[has |-> FALSE, inputs |-> <<>>]}
                   \cup {[has |-> TRUE, inputs |-> q] : q \in InputLists}]

Resolving == call.fn = "resolver"

topFrame == call.stack[Len(call.stack)]

\* the base case of the call on top of the stack
topIsTerminal ==
  ~call.recipeOf[topFrame.itemId].has \/ isOre(topFrame.itemId)
    \/ isLiquidSource(topFrame.itemId)

\* calculateProductionChain(itemId): the top-level call pushes its node
ResolveStart ==
  /\ call = NoCall
  /\ \E catalog \in SmallCatalogs : \E itemId \in SmallItems :
       call' = [fn |-> "resolver", recipeOf |-> catalog, target |-> itemId,
                stack |-> <<[itemId |-> itemId, next |-> 1]>>,
                nodes |-> 1, edges |-> 0, status |-> "running"]
  /\ UNCHANGED <<language, targetItem, targetAmount, minerSettings, productionChain,
                 resolved, changes>>

\* the recursive call for the next recipe input; a call beyond the stack's
\* capacity throws
ResolveCall ==
  /\ Resolving /\ call.status = "running"
  /\ ~topIsTerminal
  /\ topFrame.next <= Len(call.recipeOf[topFrame.itemId].inputs)
  /\ IF Len(call.stack) >= MaxStack
     THEN call' = [call EXCEPT !.status = "RangeError"]
     ELSE call' = [call EXCEPT
                     !.stack = Append(@, [itemId |-> call.recipeOf[topFrame.itemId].inputs[topFrame.next],
                                          next |-> 1]),
                     !.nodes = @ + 1]
  /\ UNCHANGED <<language, targetItem, targetAmount, minerSettings, productionChain,
                 resolved, changes>>

\* return result: the caller pushes the edge and goes on with its next input
ResolveReturn ==
  /\ Resolving /\ call.status = "running"
  /\ topIsTerminal \/ topFrame.next > Len(call.recipeOf[topFrame.itemId].inputs)
  /\ IF Len(call.stack) = 1
     THEN call' = [call EXCEPT !.stack = <<>>, !.status = "returned"]
     ELSE call' = [call EXCEPT
                     !.stack = [SubSeq(@, 1, Len(@) - 1) EXCEPT ![Len(@) - 1].next = @ + 1],
                     !.edges = @ + 1]
  /\ UNCHANGED <<language, targetItem, targetAmount, minerSettings, productionChain,
                 resolved, changes>>

ResolveNext == ResolveStart \/ ResolveCall \/ ResolveReturn

ResolveSpec == Init /\ [][ResolveNext]_vars

(***************************************************************************)
(* The ranker step by step: the seeding, then one step per node visited by *)
(* nodeMap.forEach and one per end of a pass of the while loop.  It is     *)
(* handed the chains the resolver produces and every graph on three        *)
(* processing nodes, cyclic ones included.                                 *)
(***************************************************************************)
GraphPairs == << <<0, 1>>, <<1, 0>>, <<1, 2>>, <<2, 1>>, <<0, 2>>, <<2, 0>>, <<2, 2>> >>

RECURSIVE graphEdges(_, _)
\* the edges of GraphPairs at the positions in picked, in list order
graphEdges(picked, k) ==
  IF k > Len(GraphPairs) THEN <<>>
  ELSE IF k \in picked
       THEN << [id |-> GraphPairs[k], source |-> GraphPairs[k][1],
                target |-> GraphPairs[k][2], label |-> 1,
                data |-> [amount |-> QInt(1), itemId |-> "x"]] >>
              \o graphEdges(picked, k + 1)
       ELSE graphEdges(picked, k + 1)

graphChain(picked) ==
  [nodes |-> Array([i \in 1..3 |-> machineNode(i - 1, "x", QInt(1), 0,
                                              [building |-> "Constructor"])]),
   edges |-> graphEdges(picked, 1)]

Ranking == call.fn = "ranker"

rankerStart(chain, fromResolver) ==
  [fn |-> "ranker", chain |-> chain, fromResolver |-> fromResolver,
   ranks |-> seedRanks(chain), i |-> 1, changed |-> FALSE, pc |-> "while"]

\* calculateTopologicalRanks(chain) up to the first `changed = false`
RankStart ==
  /\ call = NoCall
  /\ \/ \E itemId \in AllIds : call' = rankerStart(resolve(itemId, QInt(1)), TRUE)
     \/ \E picked \in SUBSET DOMAIN GraphPairs : call' = rankerStart(graphChain(picked), FALSE)
  /\ UNCHANGED <<language, targetItem, targetAmount, minerSettings, productionChain,
                 resolved, changes>>

\* the forEach callback for the node at position call.i
RankVisit ==
  /\ Ranking /\ call.pc = "while"
  /\ call.i <= Len(call.chain.nodes)
  /\ call' = [call EXCEPT
                !.ranks = relaxNode(call.chain, call.ranks, call.i),
                !.changed = @ \/ relaxNode(call.chain, call.ranks, call.i) # call.ranks,
                !.i = @ + 1]
  /\ UNCHANGED <<language, targetItem, targetAmount, minerSettings, productionChain,
                 resolved, changes>>

RankPassEndAlways ==
  /\ Ranking /\ call.pc = "while"
  /\ call.i > Len(call.chain.nodes)
  /\ call' = [call EXCEPT !.changed = FALSE, !.i = 1]
  /\ UNCHANGED <<language, targetItem, targetAmount, minerSettings, productionChain,
                 resolved, changes>>

\* the test of while (changed) after a pass
RankPassEnd ==
  /\ Ranking /\ call.pc = "while"
  /\ call.i > Len(call.chain.nodes)
  /\ IF call.changed
     THEN call' = [call EXCEPT !.changed = FALSE, !.i = 1]
     ELSE call' = [call EXCEPT !.pc = "done"]
  /\ UNCHANGED <<language, targetItem, targetAmount, minerSettings, productionChain,
                 resolved, changes>>

RankNext == RankStart \/ RankVisit \/ RankPassEnd

\* the call runs to its end once started: JavaScript runs it without
\* interruption
RankSpec == Init /\ [][RankNext]_vars /\ WF_vars(RankNext)

(***************************************************************************)
(* Layout: getLayoutedElements and createTierBackgroundNodes.  The dagre   *)
(* pass is external; `dagre` is what dagreGraph.node(id) returns for the   *)
(* node at each list position, and may be anything.  node ids tier-bg-<n>  *)
(* and labels `Tier <n>` are modelled by the integer n; y-coordinates are  *)
(* exact rationals.                                                        *)
(***************************************************************************)
NODE_WIDTH == 200
NODE_HEIGHT == 280
TITLE_SAFE_AREA == 80
RANK_SPACING == 280
START_X == 50

TIER_COLORS == << "#1e1e1e", "#1a1a1a", "#161616", "#121212", "#0f0f0f", "#0c0c0c" >>

SetMin(S) == CHOOSE m \in S : \A x \in S : m <= x
SetMax(S) == CHOOSE m \in S : \A x \in S : x <= m

nodeHeightOf(node) == IF node.type = "minerNode" THEN NODE_HEIGHT + 40 ELSE NODE_HEIGHT

strictXWithDagre(rank, dagreX) == dagreX

\* const strictX = START_X + rank * RANK_SPACING
strictX(rank, dagreX) == START_X + rank * RANK_SPACING

RECURSIVE sortedRanks(_)
\* the keys of tierMap sorted by (a, b) => a - b
sortedRanks(S) ==
  IF S = {} THEN <<>> ELSE <<SetMin(S)>> \o sortedRanks(S \ {SetMin(S)})

getLayoutedElements(nodes, dagre) ==
  IF Len(nodes) = 0 THEN [nodes |-> <<>>, tierInfo |-> <<>>]
  ELSE
  LET rankAt(i) == nodes[i].data.rank
      x0(i) == strictX(rankAt(i), dagre[i].x)
      \* nodeWithPosition.y - nodeHeight / 2
      y0(i) == dagre[i].y - (nodeHeightOf(nodes[i]) \div 2)
      ranks == {rankAt(i) : i \in DOMAIN nodes}
      inTier(r) == {i \in DOMAIN nodes : rankAt(i) = r}
      minX(r) == SetMin({x0(i) : i \in inTier(r)})
      maxX(r) == SetMax({x0(i) + NODE_WIDTH : i \in inTier(r)})
      minY(r) == SetMin({y0(i) : i \in inTier(r)})
      maxY(r) == SetMax({y0(i) + nodeHeightOf(nodes[i]) : i \in inTier(r)})
      globalMinY == SetMin({minY(r) : r \in ranks})
      globalMaxY == SetMax({maxY(r) : r \in ranks})
      contentHeight == globalMaxY - globalMinY
      yOffset(r) ==
        QSub(QAdd(QInt(TITLE_SAFE_AREA), Q(contentHeight - (maxY(r) - minY(r)), 2)),
             QInt(minY(r) - globalMinY))
      \* position of node i after the stable sort of its tier by y
      verticalIndex(i) ==
        Cardinality({j \in inTier(rankAt(i)) :
                       y0(j) < y0(i) \/ (y0(j) = y0(i) /\ j < i)})
  IN  [nodes |->
         Array([i \in DOMAIN nodes |->
           [id |-> nodes[i].id, type |-> nodes[i].type,
            position |-> [x |-> x0(i), y |-> QAdd(QInt(y0(i)), yOffset(rankAt(i)))],
            measured |-> [width |-> NODE_WIDTH, height |-> nodeHeightOf(nodes[i])],
            data |-> [rank |-> rankAt(i), tierIndex |-> rankAt(i),
                      verticalIndex |-> verticalIndex(i),
                      nodesInTierCount |-> Cardinality(inTier(rankAt(i)))]]]),
       tierInfo |->
         Array([k \in DOMAIN sortedRanks(ranks) |->
           LET r == sortedRanks(ranks)[k]
           IN  [index |-> r, rank |-> r, minX |-> minX(r), maxX |-> maxX(r),
                minY |-> QAdd(QInt(minY(r)), yOffset(r)),
                maxY |-> QAdd(QInt(maxY(r)), yOffset(r)),
                width |-> maxX(r) - minX(r), height |-> maxY(r) - minY(r),
                nodeCount |-> Cardinality(inTier(r))]])]

QSeqMax(q) ==
  CHOOSE m \in {q[i] : i \in DOMAIN q} : \A i \in DOMAIN q : QLeq(q[i], m)

createTierBackgroundNodes(tierInfo) ==
  IF Len(tierInfo) = 0 THEN <<>>
  ELSE
  LET padding == 25
      globalMaxY == QAdd(QSeqMax([k \in DOMAIN tierInfo |-> tierInfo[k].maxY]), QInt(padding))
  IN  Array([k \in DOMAIN tierInfo |->
        LET index == k - 1
            tierNumber == tierInfo[k].rank + 1
        IN  [id |-> tierNumber, type |-> "tierBackground",
             position |-> [x |-> tierInfo[k].minX - padding, y |-> QInt(0)],
             data |-> [tierLabel |-> tierNumber,
                       colorIndex |-> index % Len(TIER_COLORS),
                       width |-> tierInfo[k].width + padding * 2,
                       height |-> globalMaxY]]])

\* the flow nodes of a straight chain of n nodes: node-0 is the target with
\* rank n - 1, the last node the extractor with rank 0
straightChainNodes(n) ==
  Array([i \in 1..n |->
    [id |-> i - 1, type |-> IF i = n THEN "minerNode" ELSE "machineNode",
     position |-> [x |-> (n - i) * 320 + 50],
     data |-> [rank |-> n - i]]])

\* what dagre may return for a list of n nodes
DagreLayouts(nodes) ==
  { [i \in DOMAIN nodes |-> [x |-> 150 + 330 * nodes[i].data.rank, y |-> 200 * i]],
    [i \in DOMAIN nodes |-> [x |-> 0, y |-> 0]],
    [i \in DOMAIN nodes |-> [x |-> 1000 - 100 * i, y |-> 1000 - 150 * i]],
    [i \in DOMAIN nodes |-> [x |-> 100 * i, y |-> 330 * (i % 2)]],
    [i \in DOMAIN nodes |-> [x |-> 280 * i, y |-> 0 - 100 * i]],
    [i \in DOMAIN nodes |-> [x |-> 50, y |-> 75 * i * i]] }

layoutCall(nodes, dagre) ==
  [fn |-> "getLayoutedElements", nodes |-> nodes, dagre |-> dagre,
   out |-> getLayoutedElements(nodes, dagre),
   backgrounds |-> createTierBackgroundNodes(getLayoutedElements(nodes, dagre).tierInfo)]

\* the layout of the flow nodes of a resolved chain
CallLayout ==
  /\ \E itemId \in AllIds :
       LET nodes == chainToFlowNodes(resolve(itemId, QInt(1)), "de", {}, QInt(1))
       IN  \E dagre \in DagreLayouts(nodes) : call' = layoutCall(nodes, dagre)
  /\ UNCHANGED <<language, targetItem, targetAmount, minerSettings, productionChain,
                 resolved, changes>>

\* the layout of a straight chain
CallLayoutStraight ==
  /\ \E n \in 1..MaxTiers :
       \E dagre \in DagreLayouts(straightChainNodes(n)) :
          call' = layoutCall(straightChainNodes(n), dagre)
  /\ UNCHANGED <<language, targetItem, targetAmount, minerSettings, productionChain,
                 resolved, changes>>

LayoutNext == CallLayout \/ CallLayoutStraight

LayoutSpec == Init /\ [][LayoutNext]_vars

(***************************************************************************)
(* The amount field on its own: any text of up to MaxInputLen characters   *)
(* over InputChars, and the entries of AmountInputs and NonNumericInputs,  *)
(* typed into the amount input of the batch-mode App (stored in            *)
(* targetAmount) and into the rate input of the rate-mode App (stored in   *)
(* call.targetRate), with target selections in between.                    *)
(***************************************************************************)
MaxInputLen == 2

InputChars == {"0", "5", "-", "."}

\* entries that are no number at all
NonNumericInputs == { <<"a">>, <<"a", "b", "c">>, <<"-">> }

RECURSIVE StringsUpTo(_)
StringsUpTo(n) ==
  IF n = 0 THEN { <<>> }
  ELSE LET shorter == StringsUpTo(n - 1)
       IN  shorter \cup {Append(str, c) : str \in shorter, c \in InputChars}

InputStrings == StringsUpTo(MaxInputLen) \cup AmountInputs \cup NonNumericInputs

RECURSIVE digitsEnd(_, _)
\* the first position from i on that holds no digit
digitsEnd(str, i) ==
  IF i <= Len(str) /\ IsDigit(str[i]) THEN digitsEnd(str, i + 1) ELSE i

RECURSIVE Pow10(_)
Pow10(k) == IF k = 0 THEN 1 ELSE 10 * Pow10(k - 1)

\* parseFloat(str): leading blanks, an optional sign, digits, an optional
\* fraction; NaN when there is no digit
parseFloat(str) ==
  LET i == skipSpaces(str, 1)
      signed == i <= Len(str) /\ str[i] \in {"-", "+"}
      j == IF signed THEN i + 1 ELSE i
      k == digitsEnd(str, j)
      dotted == k <= Len(str) /\ str[k] = "."
      m == IF dotted THEN digitsEnd(str, k + 1) ELSE k
      whole == parseDigits(str, j, FALSE, 0).value
      frac == IF dotted THEN parseDigits(str, k + 1, FALSE, 0).value ELSE 0
      fracLen == IF dotted THEN m - (k + 1) ELSE 0
      magnitude == QAdd(QInt(whole), Q(frac, Pow10(fracLen)))
      nan == (k = j) /\ fracLen = 0
  IN  [nan |-> nan,
       value |-> IF signed /\ str[i] = "-" THEN QSub(QInt(0), magnitude)
                 ELSE magnitude]

\* Math.max(1, parseFloat(e.target.value) || 1)
rateFromInput(str) ==
  LET p == parseFloat(str)
      v == IF p.nan \/ p.value = QInt(0) THEN QInt(1) ELSE p.value
  IN  IF QLt(v, QInt(1)) THEN QInt(1) ELSE v

\* onChange of the rate input of the rate-mode App
handleRateChange(str) ==
  /\ call' = [fn |-> "setTargetRate", input |-> str,
              targetRate |-> rateFromInput(str)]
  /\ UNCHANGED <<language, targetItem, targetAmount, minerSettings,
                 productionChain, resolved, changes>>

EditAmount == \E str \in InputStrings : handleAmountChange(str)
EditRate == \E str \in InputStrings : handleRateChange(str)
InputItemClick == \E itemId \in {"iron-plate", "plastic"} : handleItemClick(itemId)

InputNext == EditAmount \/ EditRate \/ InputItemClick

InputSpec == Init /\ [][InputNext]_vars

(***************************************************************************)
(* The resolvers of the rate-mode App (src/src/App.jsx) and of the first   *)
(* batch-mode App (part_001), on stored numbers.  Both stop at ores and at *)
(* items without recipe only.                                              *)
(***************************************************************************)
\* !recipe || isOre(itemId)
isBaseItem(itemId) == getRecipeForItem(itemId) = NoRecipe \/ isOre(itemId)

\* Math.ceil of a stored number, as a natural number in limbs
NumCeil(a) ==
  IF a.e >= 0 THEN ShiftLeftBits(a.m, a.e)
  ELSE IF LowBitsZero(a.m, -a.e) THEN ShiftRightBits(a.m, -a.e)
  ELSE BigAdd(ShiftRightBits(a.m, -a.e), <<1>>)

rateMinerNode(nodeId, itemId, targetRate, depth) ==
  [id |-> nodeId, itemId |-> itemId, building |-> "Miner", rate |-> targetRate,
   depth |-> depth, isOre |-> TRUE]

rateMachineNode(nodeId, itemId, targetRate, machinesNeeded, depth, recipe) ==
  [id |-> nodeId, itemId |-> itemId, building |-> recipe.building, rate |-> targetRate,
   machinesNeeded |-> machinesNeeded, depth |-> depth, isOre |-> FALSE]

rateEdge(sourceId, nodeId) ==
  [id |-> <<sourceId, nodeId>>, source |-> sourceId, target |-> nodeId]

\* const cyclesPerMinute = 60 / recipe.cycleTime
cyclesPerMinuteOf(recipe) == NumDiv(Num(60), Num(recipe.cycleTime))

\* const machinesNeeded = targetRate / (outputPerCycle * cyclesPerMinute)
machinesNeededFor(targetRate, recipe) ==
  NumDiv(targetRate, NumMul(Num(recipe.outputAmount), cyclesPerMinuteOf(recipe)))

inputPerMinuteNoMachines(input, recipe, machinesNeeded) ==
  NumMul(Num(input.amount), cyclesPerMinuteOf(recipe))

\* const inputPerMinute = inputPerCycle * cyclesPerMinute * machinesNeeded
inputPerMinuteFor(input, recipe, machinesNeeded) ==
  NumMul(NumMul(Num(input.amount), cyclesPerMinuteOf(recipe)), machinesNeeded)

RECURSIVE calculateProductionChainRate(_, _, _, _)
RECURSIVE rateInputs(_, _, _, _, _, _)

\* the for-of loop over recipe.inputs of the rate-mode resolver
rateInputs(recipe, i, machinesNeeded, depth, nodeId, acc) ==
  IF i > Len(recipe.inputs) THEN acc
  ELSE LET input == recipe.inputs[i]
           inputPerMinute == inputPerMinuteFor(input, recipe, machinesNeeded)
           subChain == calculateProductionChainRate(input.itemId, inputPerMinute,
                                                    depth + 1, acc.counter)
           edges1 == IF Len(subChain.nodes) > 0
                     THEN Append(acc.edges, rateEdge(subChain.nodes[1].id, nodeId))
                     ELSE acc.edges
       IN  rateInputs(recipe, i + 1, machinesNeeded, depth, nodeId,
                      [nodes |-> acc.nodes \o subChain.nodes,
                       edges |-> edges1 \o subChain.edges,
                       counter |-> subChain.counter])

\* calculateProductionChain of src/src/App.jsx
calculateProductionChainRate(itemId, targetRate, depth, nodeIdCounter) ==
  LET recipe == getRecipeForItem(itemId)
      nodeId == nodeIdCounter
      machinesNeeded == machinesNeededFor(targetRate, recipe)
  IN  IF isBaseItem(itemId)
      THEN [nodes |-> << rateMinerNode(nodeId, itemId, targetRate, depth) >>,
            edges |-> <<>>,
            counter |-> nodeIdCounter + 1]
      ELSE rateInputs(recipe, 1, machinesNeeded, depth, nodeId,
                      [nodes |-> << rateMachineNode(nodeId, itemId, targetRate,
                                                    machinesNeeded, depth, recipe) >>,
                       edges |-> <<>>,
                       counter |-> nodeIdCounter + 1])

resolveRate(itemId, targetRate) ==
  LET r == calculateProductionChainRate(itemId, targetRate, 0, 0)
  IN  [nodes |-> r.nodes, edges |-> r.edges]

batchMinerNode(nodeId, itemId, targetAmt, depth) ==
  [id |-> nodeId, itemId |-> itemId, building |-> "Miner", amount |-> targetAmt,
   depth |-> depth, isOre |-> TRUE]

batchMachineNode(nodeId, itemId, targetAmt, depth, recipe) ==
  [id |-> nodeId, itemId |-> itemId, building |-> recipe.building, amount |-> targetAmt,
   depth |-> depth, isOre |-> FALSE]

batchEdge(sourceId, nodeId, inputAmount) ==
  [id |-> <<sourceId, nodeId>>, source |-> sourceId, target |-> nodeId,
   label |-> NumCeil(inputAmount), data |-> [amount |-> inputAmount]]

RECURSIVE calculateProductionChainBatch(_, _, _, _)
RECURSIVE batchInputs(_, _, _, _, _, _)

\* the for-of loop over recipe.inputs of the batch-mode resolver
batchInputs(recipe, i, cyclesNeeded, depth, nodeId, acc) ==
  IF i > Len(recipe.inputs) THEN acc
  ELSE LET input == recipe.inputs[i]
           inputAmount == NumMul(Num(input.amount), cyclesNeeded)
           subChain == calculateProductionChainBatch(input.itemId, inputAmount,
                                                     depth + 1, acc.counter)
           edges1 == IF Len(subChain.nodes) > 0
                     THEN Append(acc.edges,
                                 batchEdge(subChain.nodes[1].id, nodeId, inputAmount))
                     ELSE acc.edges
       IN  batchInputs(recipe, i + 1, cyclesNeeded, depth, nodeId,
                       [nodes |-> acc.nodes \o subChain.nodes,
                        edges |-> edges1 \o subChain.edges,
                        counter |-> subChain.counter])

\* calculateProductionChain of part_001
calculateProductionChainBatch(itemId, targetAmt, depth, nodeIdCounter) ==
  LET recipe == getRecipeForItem(itemId)
      nodeId == nodeIdCounter
  IN  IF isBaseItem(itemId)
      THEN [nodes |-> << batchMinerNode(nodeId, itemId, targetAmt, depth) >>,
            edges |-> <<>>,
            counter |-> nodeIdCounter + 1]
      ELSE batchInputs(recipe, 1, NumDiv(targetAmt, Num(recipe.outputAmount)), depth, nodeId,
                       [nodes |-> << batchMachineNode(nodeId, itemId, targetAmt, depth,
                                                      recipe) >>,
                        edges |-> <<>>,
                        counter |-> nodeIdCounter + 1])

resolveBatch(itemId, targetAmt) ==
  LET r == calculateProductionChainBatch(itemId, targetAmt, 0, 0)
  IN  [nodes |-> r.nodes, edges |-> r.edges]

(***************************************************************************)
(* The three resolvers called on the same input: a target id and a target  *)
(* number 1..MaxTargetNumber are drawn first, then the resolvers of        *)
(* part_000, of the rate-mode App and of part_001 are applied to them.     *)
(***************************************************************************)
MaxTargetNumber == 7

VariantInputs ==
  {[fn |-> "input", itemId |-> itemId, number |-> number] :
     itemId \in AllIds, number \in 1..MaxTargetNumber}

VariantInit ==
  /\ language = "de"
  /\ targetItem = NoTarget
  /\ targetAmount = 100
  /\ minerSettings = {}
  /\ productionChain = NullChain
  /\ resolved = FALSE
  /\ changes = 0
  /\ call \in VariantInputs

CallVariants ==
  /\ call.fn = "input"
  /\ call' = [fn |-> "variants", itemId |-> call.itemId, number |-> call.number,
              chain |-> resolve(call.itemId, QInt(call.number)),
              rate |-> resolveRate(call.itemId, Num(call.number)),
              batch |-> resolveBatch(call.itemId, Num(call.number))]
  /\ UNCHANGED <<language, targetItem, targetAmount, minerSettings, productionChain,
                 resolved, changes>>

VariantNext == CallVariants

VariantSpec == VariantInit /\ [][VariantNext]_vars

(***************************************************************************)
(* The bottleneck computation of part_000 on stored numbers: the resolver, *)
(* the production-time memo and the rate and tier of every edge, computed  *)
(* with the arithmetic of the stored numbers.                              *)
(***************************************************************************)
\* a number literal such as 0.5
NumOf(q) == NumDiv(Num(q.n), Num(q.d))

\* let maxTime = 0
NumZero == [m |-> <<>>, e |-> 0]

storedEdge(sourceId, nodeId, inputAmount, input) ==
  [id |-> <<sourceId, nodeId>>, source |-> sourceId, target |-> nodeId,
   label |-> NumCeil(inputAmount),
   data |-> [amount |-> inputAmount, itemId |-> input.itemId]]

RECURSIVE calculateProductionChainStored(_, _, _, _)
RECURSIVE storedInputs(_, _, _, _, _, _)

\* the for-of loop over recipe.inputs
storedInputs(recipe, i, cyclesNeeded, depth, nodeId, acc) ==
  IF i > Len(recipe.inputs) THEN acc
  ELSE LET input == recipe.inputs[i]
           inputAmount == NumMul(Num(input.amount), cyclesNeeded)
           subChain == calculateProductionChainStored(input.itemId, inputAmount,
                                                      depth + 1, acc.counter)
           edges1 == IF Len(subChain.nodes) > 0
                     THEN Append(acc.edges,
                                 storedEdge(subChain.nodes[1].id, nodeId, inputAmount, input))
                     ELSE acc.edges
       IN  storedInputs(recipe, i + 1, cyclesNeeded, depth, nodeId,
                        [nodes |-> acc.nodes \o subChain.nodes,
                         edges |-> edges1 \o subChain.edges,
                         counter |-> subChain.counter])

\* calculateProductionChain of part_000
calculateProductionChainStored(itemId, targetAmt, depth, nodeIdCounter) ==
  LET recipe == getRecipeForItem(itemId)
      nodeId == nodeIdCounter
  IN  IF isTerminalItem(itemId)
      THEN [nodes |-> << extractorNode(nodeId, itemId, targetAmt, depth) >>,
            edges |-> <<>>,
            counter |-> nodeIdCounter + 1]
      ELSE storedInputs(recipe, 1, NumDiv(targetAmt, Num(recipe.outputAmount)), depth, nodeId,
                        [nodes |-> << machineNode(nodeId, itemId, targetAmt, depth, recipe) >>,
                         edges |-> <<>>,
                         counter |-> nodeIdCounter + 1])

resolveStored(itemId, targetAmt) ==
  LET r == calculateProductionChainStored(itemId, targetAmt, 0, 0)
  IN  [nodes |-> r.nodes, edges |-> r.edges]

\* tierData.baseRate * purityData.multiplier
minerOutputStored(tier, purity) ==
  NumMul(Num(MINER_TIERS[tier].baseRate), NumOf(PURITY_LEVELS[purity].multiplier))

\* const miningTime = node.amount / outputPerMin
miningTimeStored(node, settings) ==
  NumDiv(node.amount,
         minerOutputStored(settingsOf(settings, node.id).tier,
                           settingsOf(settings, node.id).purity))

RECURSIVE slowestMinerStored(_, _, _, _)
\* oreNodes.forEach: keep the strictly longest mining time seen so far
slowestMinerStored(oreNodes, settings, i, acc) ==
  IF i > Len(oreNodes) THEN acc
  ELSE LET miningTime == miningTimeStored(oreNodes[i], settings)
       IN  slowestMinerStored(oreNodes, settings, i + 1,
             IF acc.totalMinutes = NumZero \/ NumLt(acc.totalMinutes, miningTime)
             THEN [present |-> TRUE, totalMinutes |-> miningTime,
                   bottleneckItem |-> oreNodes[i].itemId]
             ELSE acc)

productionTimeInfoStored(chain, settings) ==
  IF Len(oreNodesOf(chain)) = 0
  THEN [present |-> FALSE, totalMinutes |-> NumZero, bottleneckItem |-> ""]
  ELSE slowestMinerStored(oreNodesOf(chain), settings, 1,
                          [present |-> TRUE, totalMinutes |-> NumZero, bottleneckItem |-> ""])

\* productionTimeInfo?.totalMinutes || 1
totalMinutesStored(info) ==
  IF ~info.present \/ info.totalMinutes = NumZero THEN Num(1) ELSE info.totalMinutes

RECURSIVE FirstFitStored(_, _, _)
\* the for-of scan of a tier table: the first entry with rate <= capacity
FirstFitStored(table, rate, i) ==
  IF i > Len(table) THEN 0
  ELSE IF NumLeq(rate, Num(table[i].capacity)) THEN i
  ELSE FirstFitStored(table, rate, i + 1)

\* getRequiredPipeTier for liquids, getRequiredBeltTier for solids
transportTierStored(itemIsLiquid, requiredRate) ==
  LET table == IF itemIsLiquid THEN PIPE_TIERS ELSE BELT_TIERS
      i == FirstFitStored(table, requiredRate, 1)
  IN  IF i # 0
      THEN [tier |-> table[i].tier, capacity |-> table[i].capacity, isOverLimit |-> FALSE]
      ELSE [tier |-> "LIMIT", capacity |-> table[Len(table)].capacity, isOverLimit |-> TRUE]

\* one element of productionChain.edges.map(...)
flowEdgeStored(edge, totalMinutes) ==
  LET requiredRate == NumDiv(edge.data.amount, totalMinutes)
      itemIsLiquid == isLiquid(edge.data.itemId)
      tierInfo == transportTierStored(itemIsLiquid, requiredRate)
  IN  [id |-> edge.id, source |-> edge.source, target |-> edge.target,
       data |-> [amount |-> edge.data.amount, itemId |-> edge.data.itemId,
                 requiredRate |-> requiredRate, tier |-> tierInfo.tier,
                 isOverLimit |-> tierInfo.isOverLimit, isLiquid |-> itemIsLiquid]]

(***************************************************************************)
(* A render of part_000 on stored numbers: a target, a target amount       *)
(* 1..MaxTargetNumber and a choice of miner settings are drawn first (one  *)
(* tier and purity, selected for every ore node or for the first one       *)
(* only), then the chain, the production time and the edges are computed.  *)
(***************************************************************************)
RenderInputs ==
  {[fn |-> "selection", itemId |-> itemId, number |-> number,
    tier |-> tier, purity |-> purity, scope |-> scope] :
     itemId \in ItemIds, number \in 1..MaxTargetNumber,
     tier \in DOMAIN MINER_TIERS, purity \in DOMAIN PURITY_LEVELS,
     scope \in {"all", "first"}}

RenderInit ==
  /\ language = "de"
  /\ targetItem = NoTarget
  /\ targetAmount = 100
  /\ minerSettings = {}
  /\ productionChain = NullChain
  /\ resolved = FALSE
  /\ changes = 0
  /\ call \in RenderInputs

\* the settings after the selections of the input were made
selectedSettings(chain, tier, purity, scope) ==
  LET ore == oreNodesOf(chain)
  IN  {entry(ore[i].id, IF scope = "all" \/ i = 1 THEN tier ELSE DefaultSettings.tier,
                        IF scope = "all" \/ i = 1 THEN purity ELSE DefaultSettings.purity) :
         i \in DOMAIN ore}

renderOf(itemId, number, chain, settings, info) ==
  [fn |-> "render", itemId |-> itemId, number |-> number,
   chain |-> chain, settings |-> settings, info |-> info,
   edges |-> Array([i \in DOMAIN chain.edges |->
                      flowEdgeStored(chain.edges[i], totalMinutesStored(info))])]

renderWith(itemId, number, chain, settings) ==
  renderOf(itemId, number, chain, settings, productionTimeInfoStored(chain, settings))

renderChain(itemId, number, tier, purity, scope, chain) ==
  renderWith(itemId, number, chain, selectedSettings(chain, tier, purity, scope))

CallRender ==
  /\ call.fn = "selection"
  /\ call' = renderChain(call.itemId, call.number, call.tier, call.purity, call.scope,
                         resolveStored(call.itemId, Num(call.number)))
  /\ UNCHANGED <<language, targetItem, targetAmount, minerSettings, productionChain,
                 resolved, changes>>

RenderNext == CallRender

RenderSpec == RenderInit /\ [][RenderNext]_vars

(***************************************************************************)
(* Properties of the functions exercised on their own (CallSpec).          *)
(***************************************************************************)
Resolved == call.fn = "calculateProductionChain"

\* the node of chain c with id `id`
nodeOf(c, id) == c.nodes[CHOOSE i \in DOMAIN c.nodes : c.nodes[i].id = id]

RECURSIVE edgesInto(_, _, _)
\* the edges of c into node id, in the order of the edge list
edgesInto(c, id, i) ==
  IF i > Len(c.edges) THEN <<>>
  ELSE IF c.edges[i].target = id
       THEN <<c.edges[i]>> \o edgesInto(c, id, i + 1)
       ELSE edgesInto(c, id, i + 1)

\* C1: for an item id without a recipe in the catalog, an id the catalog does
\* not know included, calculateProductionChain(item, N) returns exactly one
\* node, which carries the amount N and the raw id, and no edge.
C1_TerminalCorrectness ==
  (Resolved /\ getRecipeForItem(call.itemId) = NoRecipe) =>
     /\ Len(call.chain.nodes) = 1
     /\ call.chain.nodes[1].amount = call.amount
     /\ call.chain.nodes[1].itemId = call.itemId
     /\ Len(call.chain.edges) = 0

\* the resolver was called for an unknown id with a fractional amount
C1_Witness ==
  /\ Resolved
  /\ call.itemId = UnknownId
  /\ call.amount = Q(3, 2)
  /\ Len(call.chain.nodes) = 1

\* C2: for every processing node with amount A and recipe output amount O,
\* the k-th edge into it comes from the root of the k-th input's subtree, and
\* that root's amount and the edge's data amount are exactly I * A / O for
\* the input's per-cycle amount I; only the edge label is rounded up.
C2_ExactScaling ==
  Resolved =>
    \A i \in DOMAIN call.chain.nodes :
      LET node == call.chain.nodes[i]
          recipe == getRecipeForItem(node.itemId)
          into == edgesInto(call.chain, node.id, 1)
      IN  ~node.isExtractor =>
            /\ Len(into) = Len(recipe.inputs)
            /\ \A k \in DOMAIN recipe.inputs :
                 LET exact == Q(recipe.inputs[k].amount * node.amount.n,
                                recipe.outputAmount * node.amount.d)
                     root == nodeOf(call.chain, into[k].source)
                 IN  /\ root.itemId = recipe.inputs[k].itemId
                     /\ root.amount = exact
                     /\ into[k].data.amount = exact
                     /\ into[k].data.itemId = recipe.inputs[k].itemId
                     /\ into[k].label = QCeil(exact)

\* a chain with an amount that is no integer below the target: 3/2 ingots
\* for one plate, on an edge labelled 2
C2_Witness ==
  /\ Resolved
  /\ call.itemId = "iron-plate"
  /\ call.amount = QInt(1)
  /\ \E i \in DOMAIN call.chain.edges :
       /\ call.chain.edges[i].data.amount = Q(3, 2)
       /\ call.chain.edges[i].label = 2

rankOf(ranked, id) == ranked[CHOOSE i \in DOMAIN ranked : ranked[i].id = id].rank

\* C3: in a resolved and ranked chain every edge (s, t) has rank(t) > rank(s)
\* and every terminal (extractor) node has rank 0.
C3_RankMonotonicity ==
  Resolved =>
    /\ \A i \in DOMAIN call.chain.edges :
         rankOf(call.ranked, call.chain.edges[i].target)
           > rankOf(call.ranked, call.chain.edges[i].source)
    /\ \A i \in DOMAIN call.ranked :
         call.ranked[i].isExtractor => call.ranked[i].rank = 0

\* a ranked chain with a node whose sources have different ranks
C3_Witness ==
  /\ Resolved
  /\ call.itemId = "iron-frame"
  /\ \E i, j \in DOMAIN call.chain.edges :
       /\ call.chain.edges[i].target = call.chain.edges[j].target
       /\ rankOf(call.ranked, call.chain.edges[i].source)
            # rankOf(call.ranked, call.chain.edges[j].source)

RECURSIVE LongestPath(_, _)
\* the number of edges on the longest path of c that ends in node id
LongestPath(c, id) ==
  LET into == edgesInto(c, id, 1)
  IN  IF Len(into) = 0 THEN 0
      ELSE 1 + SeqMax([k \in DOMAIN into |-> LongestPath(c, into[k].source)])

\* C4: the rank of a node is 0 if it is terminal and otherwise 1 + the maximum
\* rank of the sources of its incoming edges, which is the length of the
\* longest path from a terminal node to it; resolving iron-plate in the linear
\* catalog ore -> ingot -> plate gives 3 nodes, 2 edges and the ranks 0, 1, 2
\* for ore, ingot and plate.
C4_RankIsLongestPath ==
  Resolved =>
    /\ \A i \in DOMAIN call.ranked :
         LET node == call.ranked[i]
             into == edgesInto(call.chain, node.id, 1)
         IN  /\ node.rank = IF node.isExtractor THEN 0
                            ELSE 1 + SeqMax([k \in DOMAIN into |->
                                               rankOf(call.ranked, into[k].source)])
             /\ node.rank = LongestPath(call.chain, node.id)
    /\ call.itemId = "iron-plate" =>
         /\ Len(call.chain.nodes) = 3
         /\ Len(call.chain.edges) = 2
         /\ [i \in 1..3 |-> <<call.ranked[i].itemId, call.ranked[i].rank>>]
              = << <<"iron-plate", 2>>, <<"iron-ingot", 1>>, <<"iron-ore", 0>> >>

\* the linear chain was resolved and ranked
C4_Witness ==
  /\ Resolved
  /\ call.itemId = "iron-plate"
  /\ call.amount = QInt(2)
  /\ Len(call.ranked) = 3
  /\ call.ranked[1].rank = 2


\* the fallback case of calculateMachinesNeeded
MachinesFallback == call.recipe = NoRecipe \/ QLeq(call.window, QInt(0))

\* C5 as stated: calculateMachinesNeeded returns rounded == ceil(exact) and
\* rounded >= 1 for every amount, window and recipe, with the fallback
\* {rounded: 1, exact: 1} for a missing recipe or a window <= 0.
C5_AsStated ==
  call.fn = "calculateMachinesNeeded" =>
    /\ call.out.rounded = QCeil(call.out.exact)
    /\ call.out.rounded >= 1
    /\ MachinesFallback => call.out = [rounded |-> 1, exact |-> QInt(1)]

\* C5 amended: rounded == ceil(exact) for every amount, window and recipe, the
\* fallback {rounded: 1, exact: 1} for a missing recipe or a window <= 0, and
\* rounded >= 1 for every amount > 0 (an amount of 0 gives rounded == 0).
C5_MachineRounding ==
  call.fn = "calculateMachinesNeeded" =>
    /\ call.out.rounded = QCeil(call.out.exact)
    /\ MachinesFallback => call.out = [rounded |-> 1, exact |-> QInt(1)]
    /\ QLt(QInt(0), call.amount) => call.out.rounded >= 1
    /\ (~MachinesFallback /\ call.amount = QInt(0)) => call.out.rounded = 0

\* a call with a recipe and a positive window whose exact machine count is
\* fractional and rounded up
C5_Witness ==
  /\ call.fn = "calculateMachinesNeeded"
  /\ ~MachinesFallback
  /\ call.out.exact.d # 1
  /\ call.out.rounded >= 1
  /\ QLt(call.out.exact, QInt(call.out.rounded))

\* position of a tier in a table; LIMIT lies above every tier of the table
TierIndex(table, tier) ==
  IF tier = "LIMIT" THEN Len(table) + 1
  ELSE CHOOSE i \in DOMAIN table : table[i].tier = tier

MaxCapacity(table) ==
  CHOOSE c \in {table[i].capacity : i \in DOMAIN table} :
    \A i \in DOMAIN table : table[i].capacity <= c

\* the tier the claim asks for: the first one, in ascending capacity order,
\* whose capacity is >= rate, and LIMIT when there is none
FirstSufficient(table, rate) ==
  IF \E i \in DOMAIN table : QLeq(rate, QInt(table[i].capacity))
  THEN table[CHOOSE i \in DOMAIN table :
               /\ QLeq(rate, QInt(table[i].capacity))
               /\ \A j \in DOMAIN table :
                    QLeq(rate, QInt(table[j].capacity)) => table[i].capacity <= table[j].capacity].tier
  ELSE "LIMIT"

TierCallOk(table, out, rate) ==
  /\ out.tier = FirstSufficient(table, rate)
  /\ out.isOverLimit <=> QLt(QInt(MaxCapacity(table)), rate)
  /\ out.capacity = IF out.isOverLimit THEN MaxCapacity(table)
                    ELSE table[TierIndex(table, out.tier)].capacity

\* C6: getRequiredBeltTier and getRequiredPipeTier return the first tier, in
\* ascending capacity order, whose capacity is >= rate; the tier is
\* non-decreasing in rate, LIMIT lying above every tier; isOverLimit is true
\* exactly when rate exceeds the largest capacity of the table.
C6_TransportTier ==
  /\ call.fn = "getRequiredBeltTier" =>
       /\ TierCallOk(BELT_TIERS, call.out, call.rate)
       /\ \A r \in CallRates :
            QLeq(r, call.rate) =>
              TierIndex(BELT_TIERS, getRequiredBeltTier(r).tier)
                <= TierIndex(BELT_TIERS, call.out.tier)
  /\ call.fn = "getRequiredPipeTier" =>
       /\ TierCallOk(PIPE_TIERS, call.out, call.rate)
       /\ \A r \in CallRates :
            QLeq(r, call.rate) =>
              TierIndex(PIPE_TIERS, getRequiredPipeTier(r).tier)
                <= TierIndex(PIPE_TIERS, call.out.tier)

\* a rate equal to a capacity gets that tier
C6_Witness ==
  /\ call.fn = "getRequiredBeltTier"
  /\ call.rate = QInt(270)
  /\ call.out.tier = "Mk.3"
  /\ ~call.out.isOverLimit

(***************************************************************************)
(* Properties of the App component (Spec, SettingsSpec).                   *)
(***************************************************************************)
Shown == productionChain # NullChain

\* C7: every edge of the chain is rendered; its data.requiredRate is amount /
\* totalMinutes, unclamped; its tier comes from the pipe table when the item
\* is liquid and from the belt table otherwise; data.isOverLimit is true
\* exactly when the rate exceeds that table's maximum (1200 belts, 600 pipes).
C7_EdgeRates ==
  Shown =>
    /\ Len(FlowEdges) = Len(productionChain.edges)
    /\ \A i \in DOMAIN FlowEdges :
         LET edge == productionChain.edges[i]
             out == FlowEdges[i]
             rate == Q(edge.data.amount.n * totalMinutesOf(ProductionTimeInfo).d,
                       edge.data.amount.d * totalMinutesOf(ProductionTimeInfo).n)
             liquid == isLiquid(edge.data.itemId)
         IN  /\ out.id = edge.id /\ out.source = edge.source /\ out.target = edge.target
             /\ out.data.amount = edge.data.amount
             /\ out.data.requiredRate = rate
             /\ out.data.isLiquid = liquid
             /\ out.data.tier = FirstSufficient(IF liquid THEN PIPE_TIERS ELSE BELT_TIERS, rate)
             /\ out.data.isOverLimit <=> QLt(QInt(IF liquid THEN 600 ELSE 1200), rate)

\* a rendered chain with a solid edge over 1200/min and a liquid edge over
\* 600/min, both reported with their unclamped rates
C7_Witness ==
  /\ Shown
  /\ \E i, j \in DOMAIN FlowEdges :
       /\ ~FlowEdges[i].data.isLiquid /\ FlowEdges[i].data.isOverLimit
       /\ FlowEdges[i].data.requiredRate = QInt(2500)
       /\ FlowEdges[j].data.isLiquid /\ FlowEdges[j].data.isOverLimit
       /\ FlowEdges[j].data.requiredRate = QInt(3750)

\* the terminal (extractor) nodes of the chain on screen
TerminalNodes ==
  {productionChain.nodes[i] :
     i \in {j \in DOMAIN productionChain.nodes : productionChain.nodes[j].isExtractor}}

\* C8: the window used for machine counts and edge rates is the maximum over
\* all terminal (extractor) nodes of amount / extractor output, and the
\* bottleneck is the item of a node attaining it.
C8_BottleneckOverTerminals ==
  Shown =>
    /\ \A n \in TerminalNodes :
         QLeq(miningTimeOf(n, minerSettings), totalMinutesOf(ProductionTimeInfo))
    /\ \E n \in TerminalNodes :
         /\ miningTimeOf(n, minerSettings) = totalMinutesOf(ProductionTimeInfo)
         /\ ProductionTimeInfo.bottleneckItem = n.itemId

\* every miner node among the rendered nodes displays Mk.1 and normal
AllMinersDefault(rendered) ==
  \A i \in DOMAIN rendered :
    rendered[i].type = "minerNode" =>
      rendered[i].data.minerTier = "Mk.1" /\ rendered[i].data.purity = "normal"

\* C9: when a target is selected, every extractor node of its chain displays
\* Mk.1 and normal (none has been changed yet while this chain is shown),
\* whatever selections and changes came before.
C9_DefaultsOnSelection ==
  [][targetItem' # targetItem =>
       AllMinersDefault(chainToFlowNodes(productionChain', language', minerSettings', QInt(1)))]_vars

\* what the claim asks of a settings change: the entry of nodeId is (tier,
\* purity) and the entries of all other ids are those of before
MergeEffect(nodeId, tier, purity) ==
  /\ {e \in minerSettings' : e.id = nodeId} = {entry(nodeId, tier, purity)}
  /\ {e \in minerSettings' : e.id # nodeId} = {e \in minerSettings : e.id # nodeId}

\* C10: handleTierChange(nodeId, tier) sets the entry of nodeId to the new
\* tier with its existing purity ('normal' if it had none),
\* handlePurityChange(nodeId, purity) sets the purity with the existing tier
\* ('Mk.1' if it had none), and both leave all other entries unchanged.
C10_SettingsMerge ==
  [][\A nodeId \in MinerNodeIds :
       /\ \A newTier \in DOMAIN MINER_TIERS :
            handleTierChange(nodeId, newTier) =>
              MergeEffect(nodeId, newTier,
                          IF hasSettings(minerSettings, nodeId)
                          THEN entryOf(minerSettings, nodeId).purity ELSE "normal")
       /\ \A newPurity \in DOMAIN PURITY_LEVELS :
            handlePurityChange(nodeId, newPurity) =>
              MergeEffect(nodeId,
                          IF hasSettings(minerSettings, nodeId)
                          THEN entryOf(minerSettings, nodeId).tier ELSE "Mk.1",
                          newPurity)]_vars

\* an entry whose tier and purity were both set, beside an entry of another
\* node that kept its values
C10_Witness ==
  /\ changes = 2
  /\ \E e \in minerSettings :
       /\ e.tier = "Mk.3" /\ e.purity = "pure"
       /\ \E o \in minerSettings : o.id # e.id /\ o.tier = "Mk.1" /\ o.purity = "normal"


\* C11: a language switch or a target-amount edit never changes or removes an
\* entry of the miner settings: every node id that had settings before the
\* step has the same tier and purity after it.
C11_SettingsPersist ==
  [][(LanguageChange \/ AmountChange) =>
       \A e \in minerSettings : e \in minerSettings']_vars

\* a changed entry in a chain resolved for an edited amount, in the other
\* language
C11_Witness ==
  /\ targetAmount = 7 /\ language = "en" /\ changes = 1
  /\ \E e \in minerSettings : e.tier = "Mk.3" \/ e.purity = "pure"
  /\ \E i \in DOMAIN productionChain.nodes :
       productionChain.nodes[i].isOre /\ hasSettings(minerSettings, productionChain.nodes[i].id)

\* C12: the chain is resolved only in a step that changes the target item or
\* the target amount; a step that changes only the language or a miner's tier
\* or purity leaves the chain (node ids, item ids, amounts, edges) unchanged.
C12_ChainMemo ==
  [][/\ (resolved' \/ productionChain' # productionChain) =>
          (targetItem' # targetItem \/ targetAmount' # targetAmount)
     /\ (LanguageChange \/ TierChange \/ PurityChange) =>
          (~resolved' /\ productionChain' = productionChain)]_vars

\* a render after a tier change that kept the chain resolved before it
C12_Witness ==
  /\ Shown /\ ~resolved /\ changes = 1
  /\ Len(productionChain.nodes) > 1
  /\ \E e \in minerSettings : e.tier # "Mk.1" \/ e.purity # "normal"

\* position of the node with id `id` in the node list of c
indexOf(c, id) == CHOOSE i \in DOMAIN c.nodes : c.nodes[i].id = id

\* a chain without its node ids: the nodes in order, and the edges between
\* positions of the node list
Shape(c) ==
  [nodes |-> [i \in DOMAIN c.nodes |->
                [itemId |-> c.nodes[i].itemId, amount |-> c.nodes[i].amount,
                 building |-> c.nodes[i].building, depth |-> c.nodes[i].depth,
                 isExtractor |-> c.nodes[i].isExtractor]],
   edges |-> [i \in DOMAIN c.edges |->
                [source |-> indexOf(c, c.edges[i].source),
                 target |-> indexOf(c, c.edges[i].target),
                 label |-> c.edges[i].label, data |-> c.edges[i].data]]]

ClaimedTerminal(itemId) ==
  \/ ~\E k \in DOMAIN recipes : recipes[k].output = itemId
  \/ \E k \in DOMAIN items : items[k].id = itemId /\ items[k].category = "Ore"
  \/ itemId \in {"water", "crude-oil", "nitrogen-gas"}

\* C14: the resolver emits a terminal node (isExtractor, no incoming edge) for
\* an item exactly when the item has no recipe, or its category is Ore, or it
\* is water, crude-oil or nitrogen-gas, also when the catalog has a recipe for
\* an ore or such a source; every other item yields a processing node with
\* one incoming edge per recipe input.
C14_TerminalRule ==
  Resolved =>
    \A i \in DOMAIN call.chain.nodes :
      LET node == call.chain.nodes[i]
          into == edgesInto(call.chain, node.id, 1)
      IN  IF ClaimedTerminal(node.itemId)
          THEN node.isExtractor /\ Len(into) = 0
          ELSE /\ ~node.isExtractor
               /\ Len(into) = Len(getRecipeForItem(node.itemId).inputs)
               /\ \A k \in DOMAIN into :
                    into[k].data.itemId = getRecipeForItem(node.itemId).inputs[k].itemId

\* water has a recipe in the catalog and still resolves to one extractor node
C14_Witness ==
  /\ Resolved
  /\ call.itemId = "water"
  /\ \E k \in DOMAIN recipes : recipes[k].output = "water"
  /\ Len(call.chain.nodes) = 1 /\ Len(call.chain.edges) = 0
  /\ call.chain.nodes[1].isExtractor
  /\ call.chain.nodes[1].building = "WaterExtractor"

RECURSIVE Occurrences(_, _)
RECURSIVE OccurrencesIn(_, _, _)
\* how often item x occurs in the fully expanded recipe tree of item root
Occurrences(root, x) ==
  (IF root = x THEN 1 ELSE 0)
    + (IF ClaimedTerminal(root) THEN 0
       ELSE OccurrencesIn(getRecipeForItem(root).inputs, 1, x))
\* the occurrences of x below the inputs from position k on
OccurrencesIn(inputs, k, x) ==
  IF k > Len(inputs) THEN 0
  ELSE Occurrences(inputs[k].itemId, x) + OccurrencesIn(inputs, k + 1, x)

NodesOfItem(c, x) == {i \in DOMAIN c.nodes : c.nodes[i].itemId = x}

\* C15: the resolver never merges repeated items: the number of nodes of an
\* item equals the number of its occurrences in the fully expanded recipe
\* tree, every occurrence has a node id of its own, and every node but the
\* target feeds exactly one parent, so that each occurrence has its own
\* subtree down to its own terminal nodes.
C15_NoDeduplication ==
  Resolved =>
    /\ \A x \in AllIds :
         Cardinality(NodesOfItem(call.chain, x)) = Occurrences(call.itemId, x)
    /\ \A i, j \in DOMAIN call.chain.nodes :
         i # j => call.chain.nodes[i].id # call.chain.nodes[j].id
    /\ \A i \in DOMAIN call.chain.nodes :
         Cardinality({e \in DOMAIN call.chain.edges :
                        call.chain.edges[e].source = call.chain.nodes[i].id})
           = IF i = 1 THEN 0 ELSE 1

\* iron-frame needs iron-ingot twice, directly and below iron-plate, and so
\* has two ingot nodes and two ore nodes
C15_Witness ==
  /\ Resolved
  /\ call.itemId = "iron-frame"
  /\ Occurrences("iron-frame", "iron-ingot") = 2
  /\ Cardinality(NodesOfItem(call.chain, "iron-ingot")) = 2
  /\ Cardinality(NodesOfItem(call.chain, "iron-ore")) = 2

\* C16: for every edge of a resolved chain the source node is the root of the
\* sub-resolution of one recipe input of the target node: the source's item
\* id and amount are the edge's data.itemId and data.amount, the source was
\* created one level below the target, and the target is a processing node
\* whose recipe lists that item as an input.
C16_EdgeSources ==
  Resolved =>
    \A e \in DOMAIN call.chain.edges :
      LET edge == call.chain.edges[e]
          src == nodeOf(call.chain, edge.source)
          tgt == nodeOf(call.chain, edge.target)
          recipe == getRecipeForItem(tgt.itemId)
      IN  /\ src.itemId = edge.data.itemId
          /\ src.amount = edge.data.amount
          /\ src.depth = tgt.depth + 1
          /\ ~tgt.isExtractor
          /\ recipe # NoRecipe
          /\ \E k \in DOMAIN recipe.inputs : recipe.inputs[k].itemId = edge.data.itemId

\* the edge into the canister constructor comes from the plastic refinery,
\* not from the oil extractor below it
C16_Witness ==
  /\ Resolved
  /\ call.itemId = "empty-canister"
  /\ \E e \in DOMAIN call.chain.edges :
       /\ nodeOf(call.chain, call.chain.edges[e].target).itemId = "empty-canister"
       /\ nodeOf(call.chain, call.chain.edges[e].source).itemId = "plastic"
       /\ ~nodeOf(call.chain, call.chain.edges[e].source).isExtractor

\* C17: within one top-level resolution the node ids are pairwise distinct,
\* the counter starts at zero and the node at index i of the node list has
\* id node-i: ids are assigned in depth-first pre-order, the target being
\* node-0 (the list positions of the model count from 1).
C17_NodeIds ==
  Resolved =>
    /\ \A i \in DOMAIN call.chain.nodes : call.chain.nodes[i].id = i - 1
    /\ call.chain.nodes[1].itemId = call.itemId /\ call.chain.nodes[1].depth = 0
    /\ Cardinality({call.chain.nodes[i].id : i \in DOMAIN call.chain.nodes})
         = Len(call.chain.nodes)
    /\ \A e \in DOMAIN call.chain.edges :
         call.chain.edges[e].target < call.chain.edges[e].source

\* iron-frame: six nodes node-0..node-5, the second input's subtree numbered
\* after the whole subtree of the first
C17_Witness ==
  /\ Resolved
  /\ call.itemId = "iron-frame"
  /\ Len(call.chain.nodes) = 6
  /\ call.chain.nodes[5].id = 4 /\ call.chain.nodes[5].itemId = "iron-ingot"
  /\ call.chain.nodes[5].depth = 1
  /\ call.chain.nodes[6].id = 5 /\ call.chain.nodes[6].itemId = "iron-ore"

(***************************************************************************)
(* Properties of the resolver call by call (ResolveSpec).                  *)
(***************************************************************************)
\* C18: calculateProductionChain terminates with a finite node and edge list
\* for every target item of every catalog with at most one recipe per output
\* item: no resolution ends by exhausting the call stack.
C18_ResolverTerminates ==
  Resolving => call.status # "RangeError"

(***************************************************************************)
(* Properties of the ranker step by step (RankSpec).                       *)
(***************************************************************************)
\* the ranks the loop has left when it is over, before the `?? 0` fallback
Ranked == Ranking /\ call.pc = "done"

\* C19: on every chain produced by the resolver the relaxation loop of
\* calculateTopologicalRanks terminates, and every node then holds a rank
\* from the seeding or the relaxation, none is left to the `?? 0` fallback.
C19_RankerTerminates ==
  (Ranking /\ call.fromResolver) ~>
     (Ranked /\ \A i \in DOMAIN call.ranks : call.ranks[i] # Null)

\* the loop is over for the chain of iron-frame, with ranks 0 to 3
C19_Witness ==
  /\ Ranked /\ call.fromResolver
  /\ Len(call.chain.nodes) = 6
  /\ call.ranks[1] = 3
  /\ \A i \in DOMAIN call.ranks : call.ranks[i] \in 0..3

RECURSIVE Reaches(_, _, _, _)
\* there is a path of 1..k edges from node a to node b
Reaches(chain, a, b, k) ==
  /\ k > 0
  /\ \E e \in DOMAIN chain.edges :
       /\ chain.edges[e].source = a
       /\ chain.edges[e].target = b \/ Reaches(chain, chain.edges[e].target, b, k - 1)

OnCycle(chain, id) == Reaches(chain, id, id, Len(chain.nodes))

HasCycle(chain) == \E i \in DOMAIN chain.nodes : OnCycle(chain, chain.nodes[i].id)

LaidOut == call.fn = "getLayoutedElements"

\* C21: getLayoutedElements sets every node's x-coordinate to 50 + 280 * rank
\* whatever the layout pass returned, so two nodes have the same x exactly
\* when they have the same rank, and it groups the nodes into tiers by rank,
\* tierInfo being sorted by increasing rank.
C21_StrictX ==
  LaidOut =>
    LET out == call.out
    IN  /\ Len(out.nodes) = Len(call.nodes)
        /\ \A i \in DOMAIN out.nodes :
             out.nodes[i].position.x = 50 + 280 * call.nodes[i].data.rank
        /\ \A i, j \in DOMAIN out.nodes :
             (out.nodes[i].position.x = out.nodes[j].position.x)
               <=> (call.nodes[i].data.rank = call.nodes[j].data.rank)
        /\ \A k \in DOMAIN out.tierInfo :
             /\ out.tierInfo[k].nodeCount
                  = Cardinality({i \in DOMAIN call.nodes :
                                   call.nodes[i].data.rank = out.tierInfo[k].rank})
             /\ out.tierInfo[k].nodeCount > 0
             /\ \A m \in DOMAIN out.tierInfo : k < m => out.tierInfo[k].rank < out.tierInfo[m].rank
        /\ {out.tierInfo[k].rank : k \in DOMAIN out.tierInfo}
             = {call.nodes[i].data.rank : i \in DOMAIN call.nodes}

\* the layout pass put all six nodes of the iron-frame chain at x = 0, and
\* they still stand in four columns by rank
C21_Witness ==
  /\ LaidOut
  /\ Len(call.nodes) = 6
  /\ \A i \in DOMAIN call.dagre : call.dagre[i].x = 0
  /\ Len(call.out.tierInfo) = 4
  /\ call.out.nodes[1].position.x = 890

\* C22: for any number of tiers the background colour index of a tier is
\* non-decreasing in the tier's position: the tier nearest rank 0 gets the
\* lightest palette entry (index 0) and no tier farther from rank 0 gets a
\* lighter entry than a nearer one.
C22_ColourNonDecreasing ==
  LaidOut =>
    /\ call.backgrounds[1].data.colorIndex = 0
    /\ \A k, m \in DOMAIN call.backgrounds :
         k < m => call.backgrounds[k].data.colorIndex <= call.backgrounds[m].data.colorIndex

\* C28: the ranks of a resolved and ranked chain are exactly 0..maxRank with
\* no gap, so the i-th entry of the sorted tierInfo (counted from 0) has rank
\* i, its background is labelled Tier i+1, and the background node ids
\* tier-bg-<n> are pairwise distinct.
C28_GaplessTiers ==
  LaidOut =>
    /\ {call.nodes[i].data.rank : i \in DOMAIN call.nodes}
         = 0..(Len(call.out.tierInfo) - 1)
    /\ Len(call.backgrounds) = Len(call.out.tierInfo)
    /\ \A k \in DOMAIN call.out.tierInfo :
         /\ call.out.tierInfo[k].rank = k - 1
         /\ call.backgrounds[k].data.tierLabel = k
         /\ call.backgrounds[k].id = k
    /\ \A k, m \in DOMAIN call.backgrounds :
         k # m => call.backgrounds[k].id # call.backgrounds[m].id

\* the chain of iron-frame in four tiers, Tier 1 to Tier 4
C28_Witness ==
  /\ LaidOut
  /\ Len(call.nodes) = 6
  /\ call.nodes[1].data.rank = 3
  /\ Len(call.backgrounds) = 4
  /\ call.backgrounds[4].data.tierLabel = 4
  /\ call.out.tierInfo[2].nodeCount = 2

\* C29: in every resolved and ranked chain the target node (node-0) has a
\* rank strictly greater than that of every other node, so the rightmost tier
\* holds exactly one node, the target.
C29_TargetRightmost ==
  Resolved =>
    /\ call.ranked[1].id = 0 /\ call.ranked[1].itemId = call.itemId
    /\ \A i \in DOMAIN call.ranked : i # 1 => call.ranked[i].rank < call.ranked[1].rank
    /\ Cardinality({i \in DOMAIN call.ranked :
                      \A j \in DOMAIN call.ranked : call.ranked[j].rank <= call.ranked[i].rank}) = 1

\* iron-frame at rank 3 above a plate at rank 2 and an ingot at rank 1 that
\* both feed it
C29_Witness ==
  /\ Resolved
  /\ call.itemId = "iron-frame"
  /\ call.ranked[1].rank = 3
  /\ \E i, j \in DOMAIN call.ranked :
       /\ call.ranked[i].rank = 2 /\ call.ranked[j].rank = 1
       /\ \E e, f \in DOMAIN call.chain.edges :
            /\ call.chain.edges[e].source = call.ranked[i].id /\ call.chain.edges[e].target = 0
            /\ call.chain.edges[f].source = call.ranked[j].id /\ call.chain.edges[f].target = 0

(***************************************************************************)
(* C23: after any sequence of edits of the amount input (empty,            *)
(* non-numeric, zero and negative entries included) the stored target      *)
(* amount is an integer >= 1, the stored target rate of the rate-mode      *)
(* variant is a number >= 1, and the amount the resolver was called with   *)
(* (the amount of the root node of the shown chain) is > 0.                *)
(***************************************************************************)
C23_AmountAtLeastOne ==
  /\ targetAmount \in Nat /\ targetAmount >= 1
  /\ call.fn = "setTargetRate" => QLeq(QInt(1), call.targetRate)
  /\ productionChain # NullChain =>
        /\ productionChain.nodes[1].amount = QInt(targetAmount)
        /\ QLt(QInt(0), productionChain.nodes[1].amount)

\* a negative entry was clamped to 1 in both variants, with a chain shown
C23_Witness ==
  /\ targetAmount = 1
  /\ productionChain # NullChain
  /\ call.fn = "setTargetRate"
  /\ call.input = <<"-", "5">>
  /\ call.targetRate = QInt(1)

(***************************************************************************)
(* C24: calculateRequirements merges repeated occurrences by summation:    *)
(* rawResources holds, for exactly the raw items that occur as a leaf, the *)
(* total rate over all leaf occurrences; machines holds, for exactly the   *)
(* recipes that occur, the total of the exact machine counts over all      *)
(* occurrences; a target without a recipe gives {target: rate} and no      *)
(* machines.                                                               *)
(***************************************************************************)
RECURSIVE QSum(_)
QSum(seq) == IF seq = <<>> THEN QInt(0) ELSE QAdd(Head(seq), QSum(Tail(seq)))

\* the rate of an input of a recipe when the recipe's item is made at rate
inputRateOf(recipe, itemId, i, rate) ==
  QDiv(QMul(QInt(recipe.inputs[i].amount), rate),
       QInt(entryAmount(recipe.outputs, itemId)))

RECURSIVE LeafTotal(_, _, _)
\* the total rate of raw over the leaf occurrences below itemId made at rate
LeafTotal(itemId, rate, raw) ==
  LET recipe == requirementRecipe(itemId)
      below(i) == LeafTotal(recipe.inputs[i].id, inputRateOf(recipe, itemId, i, rate), raw)
  IN  IF recipe = NoRecipe
      THEN (IF itemId = raw THEN rate ELSE QInt(0))
      ELSE QSum([i \in DOMAIN recipe.inputs |-> below(i)])

RECURSIVE MachineTotal(_, _, _)
\* the total exact machine count of the recipe with key over its occurrences
MachineTotal(itemId, rate, key) ==
  LET recipe == requirementRecipe(itemId)
      below(i) == MachineTotal(recipe.inputs[i].id, inputRateOf(recipe, itemId, i, rate), key)
      here == IF machineKeyOf(recipe) = key
              THEN QDiv(QMul(rate, QInt(recipe.time)),
                        QInt(60 * entryAmount(recipe.outputs, itemId)))
              ELSE QInt(0)
  IN  IF recipe = NoRecipe THEN QInt(0)
      ELSE QAdd(here, QSum([i \in DOMAIN recipe.inputs |-> below(i)]))

RECURSIVE LeafItems(_)
LeafItems(itemId) ==
  LET recipe == requirementRecipe(itemId)
  IN  IF recipe = NoRecipe THEN {itemId}
      ELSE UNION {LeafItems(recipe.inputs[i].id) : i \in DOMAIN recipe.inputs}

RECURSIVE RecipeKeys(_)
RecipeKeys(itemId) ==
  LET recipe == requirementRecipe(itemId)
  IN  IF recipe = NoRecipe THEN {}
      ELSE {machineKeyOf(recipe)} \cup
           UNION {RecipeKeys(recipe.inputs[i].id) : i \in DOMAIN recipe.inputs}

Required == call.fn = "calculateRequirements"

C24_MergeBySummation ==
  Required =>
    /\ DOMAIN call.out.rawResources = LeafItems(call.itemId)
    /\ \A raw \in LeafItems(call.itemId) :
          call.out.rawResources[raw] = LeafTotal(call.itemId, call.amount, raw)
    /\ DOMAIN call.out.machines = RecipeKeys(call.itemId)
    /\ \A key \in RecipeKeys(call.itemId) :
          call.out.machines[key] = MachineTotal(call.itemId, call.amount, key)
    /\ requirementRecipe(call.itemId) = NoRecipe =>
          /\ DOMAIN call.out.rawResources = {call.itemId}
          /\ call.out.rawResources[call.itemId] = call.amount
          /\ DOMAIN call.out.machines = {}

\* a rotor at 2/min: iron rods are made for the rotor and for its screws,
\* 10 + 12.5 per minute on 1.5 constructors; all of it from 22.5 ore
C24_Witness ==
  /\ Required
  /\ call.itemId = "rotor" /\ call.amount = QInt(2)
  /\ call.out.machines[<<"Constructor", "Iron Rod">>] = Q(3, 2)
  /\ call.out.rawResources["ironOre"] = Q(45, 2)

(***************************************************************************)
(* C25: every resolved chain is a tree rooted at the target: one edge less *)
(* than nodes, every node but node-0 is the source of exactly one edge,    *)
(* node-0 of none, and the edge ids are pairwise distinct.  Checked for    *)
(* the resolver of part_000 and for the rate-mode resolver.                *)
(***************************************************************************)
Variants == call.fn = "variants"

IsTree(chain) ==
  /\ Len(chain.edges) = Len(chain.nodes) - 1
  /\ chain.nodes[1].id = 0
  /\ \A i \in DOMAIN chain.nodes :
        Cardinality({j \in DOMAIN chain.edges : chain.edges[j].source = chain.nodes[i].id})
          = IF chain.nodes[i].id = 0 THEN 0 ELSE 1
  /\ \A j, k \in DOMAIN chain.edges :
        chain.edges[j].id = chain.edges[k].id => j = k

C25_ChainIsTree == Variants => IsTree(call.chain) /\ IsTree(call.rate)

\* an iron frame: six nodes and five edges in both resolvers
C25_Witness ==
  /\ Variants
  /\ call.itemId = "iron-frame"
  /\ Len(call.chain.nodes) = 6 /\ Len(call.chain.edges) = 5
  /\ Len(call.rate.nodes) = 6 /\ Len(call.rate.edges) = 5

(***************************************************************************)
(* C26: on the same catalog and target number the rate-mode resolver and   *)
(* the batch-mode resolver produce the same tree shape and the same        *)
(* numbers at corresponding nodes.                                         *)
(***************************************************************************)
SameShape(rate, batch) ==
  /\ Len(rate.nodes) = Len(batch.nodes)
  /\ \A i \in DOMAIN rate.nodes :
        /\ rate.nodes[i].id = batch.nodes[i].id
        /\ rate.nodes[i].itemId = batch.nodes[i].itemId
        /\ rate.nodes[i].building = batch.nodes[i].building
        /\ rate.nodes[i].depth = batch.nodes[i].depth
        /\ rate.nodes[i].isOre = batch.nodes[i].isOre
  /\ Len(rate.edges) = Len(batch.edges)
  /\ \A j \in DOMAIN rate.edges :
        /\ rate.edges[j].id = batch.edges[j].id
        /\ rate.edges[j].source = batch.edges[j].source
        /\ rate.edges[j].target = batch.edges[j].target

C26_AsStated ==
  Variants =>
    /\ SameShape(call.rate, call.batch)
    /\ \A i \in DOMAIN call.rate.nodes :
          call.rate.nodes[i].rate = call.batch.nodes[i].amount

\* 1 + 2^-40
RoundingTolerance == [m |-> <<4096, 0, 0, 128>>, e |-> -52]

\* a and b differ by a relative error of at most 2^-40
WithinRounding(a, b) ==
  /\ NumLeq(a, NumMul(b, RoundingTolerance))
  /\ NumLeq(b, NumMul(a, RoundingTolerance))

(***************************************************************************)
(* C26 (amended): the two resolvers produce the same tree shape, and the   *)
(* numbers at corresponding nodes agree up to the rounding of the stored   *)
(* numbers: their relative difference is at most 2^-40 (they need not be   *)
(* the same stored number).                                                *)
(***************************************************************************)
C26_SameUpToRounding ==
  Variants =>
    /\ SameShape(call.rate, call.batch)
    /\ \A i \in DOMAIN call.rate.nodes :
          WithinRounding(call.rate.nodes[i].rate, call.batch.nodes[i].amount)

\* water at 7: the crude oil below it is 2.8000000000000003 per minute in
\* rate mode and 2.8 in batch mode
C26_Witness ==
  /\ Variants
  /\ call.itemId = "water" /\ call.number = 7
  /\ Len(call.rate.nodes) = 2
  /\ call.rate.nodes[2].rate # call.batch.nodes[2].amount
  /\ NumLt(call.batch.nodes[2].amount, call.rate.nodes[2].rate)

(***************************************************************************)
(* C27: for every edge whose source is an ore node counted in the          *)
(* production-time computation, requiredRate is at most the miner output   *)
(* of that node's tier and purity, with equality for the bottleneck node;  *)
(* the rate never exceeds 480 and the edge is never flagged over-limit.    *)
(***************************************************************************)
Rendered == call.fn = "render"

renderedNode(id) ==
  call.chain.nodes[CHOOSE i \in DOMAIN call.chain.nodes : call.chain.nodes[i].id = id]

OreEdges ==
  {j \in DOMAIN call.edges : renderedNode(call.edges[j].source).isOre}

minerOutputOf(node) ==
  minerOutputStored(settingsOf(call.settings, node.id).tier,
                    settingsOf(call.settings, node.id).purity)

IsBottleneck(node) == miningTimeStored(node, call.settings) = call.info.totalMinutes

C27_MinerRateBound ==
  Rendered =>
    \A j \in OreEdges :
      LET node == renderedNode(call.edges[j].source)
          rate == call.edges[j].data.requiredRate
      IN  /\ NumLeq(rate, minerOutputOf(node))
          /\ IsBottleneck(node) => rate = minerOutputOf(node)
          /\ NumLeq(rate, Num(480))
          /\ ~call.edges[j].data.isOverLimit

(***************************************************************************)
(* C30: after any sequence of target selections, amount edits, language    *)
(* switches and tier/purity selections, every entry of the miner settings  *)
(* store has a tier in {Mk.1, Mk.2, Mk.3} and a purity in {impure, normal, *)
(* pure}, and no step removes an entry from the store.                     *)
(***************************************************************************)
EntriesValid(settings) ==
  \A e \in settings : e.tier \in DOMAIN MINER_TIERS /\ e.purity \in DOMAIN PURITY_LEVELS

C30_SettingsWellFormed ==
  /\ [](EntriesValid(minerSettings))
  /\ [][\A e \in minerSettings : hasSettings(minerSettings', e.id)]_vars

\* a selection was made, and the store holds more entries than the shown
\* chain has ore nodes: entries of an earlier chain or of a liquid extractor
C30_Witness ==
  /\ changes = 1
  /\ productionChain # NullChain
  /\ Cardinality(minerSettings) > Len(oreNodesOf(productionChain))
  /\ \E e \in minerSettings : e.tier = "Mk.3" \/ e.purity = "pure"

====
